---- MODULE Spec2Model ----
(***************************************************************************)
(* A model of the TickTick client (ticktick_client.py) and of the tools    *)
(* built on it (server.py): the transport _make_request with its token     *)
(* refresh and its transient retry, the client operations update_task,     *)
(* create_tasks and delete_task, and the tools create_task and             *)
(* complete_task.  Every HTTP exchange is one step; the upstream service   *)
(* answers from its store or with a fault.                                 *)
(*                                                                         *)
(* Python values: a dict is a function from its keys; every scalar is a    *)
(* string (an integer n is written as its digits), None is NONE.  The text *)
(* of an error message is a record of its template and of the substrings,  *)
(* among those the code tests for, that the text contains.                 *)
(***************************************************************************)
EXTENDS Integers, Sequences, FiniteSets, TLC

VARIABLES
    cl,     \* the client object: credentials and the Authorization header
    env,    \* the persisted .env file: the tokens last saved
    up,     \* the upstream service: its project and its tasks
    op,     \* the operation in progress, with its arguments
    pc,     \* the position in the operation's code
    loc,    \* the operation's local variables
    tp,     \* the transport call in progress
    ret,    \* the value the last transport call returned
    cnt,    \* what the current top-level transport call has done so far
    opc,    \* what the current operation has done so far
    out,    \* the value the last operation returned
    loop    \* the server's event loop: the state of each tool invocation

vars == <<cl, env, up, op, pc, loc, tp, ret, cnt, opc, out, loop>>

----------------------------------------------------------------------------
(* Bounds and values *)

\* create_tasks is called with lists of up to MaxItems items.
MaxItems == 2

\* The server has up to MaxTasks tool invocations received and not yet returned.
MaxTasks == 2

NONE == "<None>"

\* Tokens the authorization server issues
AccessTokens == {"a1", "a2"}

RefreshTokens == {"r1", "r2"}

\* Substrings the code looks for in error texts.
Patterns == {"404", "timeout", "rate limit", "server error", "500", "503"}

Msg(text, has) == [text |-> text, has |-> has]

Dict(d) == [t |-> "dict", d |-> d]

List(l) == [t |-> "list", l |-> l]

EmptyDict == [k \in {} |-> NONE]

HasKey(r, k) == r.t = "dict" /\ k \in DOMAIN r.d

\* Python's `'error' in result`
HasError(r) == IF r.t = "dict" THEN "error" \in DOMAIN r.d ELSE FALSE

\* "error" in result raises for a result that is no container (JSON null)
MembershipRaises(result) == result.t = "null"

\* dict.get(key, default)
Get(d, k, default) == IF k \in DOMAIN d THEN d[k] ELSE default

\* d with key k set to v
Put(d, k, v) == [x \in DOMAIN d \cup {k} |-> IF x = k THEN v ELSE d[x]]

\* d without the keys ks
Drop(d, ks) == [x \in DOMAIN d \ ks |-> d[x]]

\* Python truthiness of a string or None
Truthy(v) == v # NONE /\ v # ""

----------------------------------------------------------------------------
(* Endpoints *)

EpProjects == "/project"
EpProject == "/project/{pid}"
EpProjectData == "/project/{pid}/data"
EpTask == "/project/{pid}/task/{tid}"
EpTaskCreate == "/task"
EpTaskUpdate == "/task/{tid}"
EpComplete == "/project/{pid}/task/{tid}/complete"
\* get_task with the id a create returned
EpCreatedTask == "/project/{pid}/task/{created id}"
EpBatch == "/batch/task"
\* get_project with the id a create returned
EpCreatedProject == "/project/{created id}"

\* "/task/" in endpoint
HasTaskSegment(ep) == ep \in {EpTask, EpCreatedTask, EpTaskUpdate, EpComplete}

\* "/project/" in endpoint
HasProjectSegment(ep) ==
    ep \in {EpProject, EpProjectData, EpTask, EpCreatedTask, EpComplete, EpCreatedProject}

ResourceType(ep) ==
    IF HasTaskSegment(ep) THEN "Task"
    ELSE IF HasProjectSegment(ep) THEN "Project"
    ELSE "Resource"

----------------------------------------------------------------------------
(* Transport: the classification of one response *)

TransientStatuses == {502, 503, 504}

ErrorStatuses == {400, 401, 404, 429, 500, 502, 503, 504}

\* _extract_error_details on a response without a body: the status description
ExtractErrorDetails(resp) ==
    IF resp.body.t = "text" THEN Msg("body text", resp.body.has)
    ELSE Msg("status description", {})

\* As ErrorCodeMap, without the entry of 422
ErrorCodeMap_No422(status) ==
    CASE status = 400 -> "BAD_REQUEST"
      [] status = 403 -> "FORBIDDEN"
      [] status = 405 -> "METHOD_NOT_ALLOWED"
      [] status = 409 -> "CONFLICT"
      [] status = 413 -> "PAYLOAD_TOO_LARGE"
      [] status = 415 -> "UNSUPPORTED_MEDIA_TYPE"
      [] status = 401 -> "CLIENT_ERROR_401"
      [] OTHER -> "CLIENT_ERROR_<status>"

\* error_code_map.get(status, f"CLIENT_ERROR_{status}") of lines 254-264
ErrorCodeMap(status) ==
    CASE status = 400 -> "BAD_REQUEST"
      [] status = 403 -> "FORBIDDEN"
      [] status = 405 -> "METHOD_NOT_ALLOWED"
      [] status = 409 -> "CONFLICT"
      [] status = 413 -> "PAYLOAD_TOO_LARGE"
      [] status = 415 -> "UNSUPPORTED_MEDIA_TYPE"
      [] status = 422 -> "VALIDATION_ERROR"
      [] status = 401 -> "CLIENT_ERROR_401"
      [] OTHER -> "CLIENT_ERROR_<status>"

\* As AuthFailed, marked transient
AuthFailed_Transient ==
    Dict([error |-> Msg("Authentication failed. Your access token is expired or invalid.", {}),
          error_code |-> "AUTH_FAILED",
          status |-> "failed",
          is_transient |-> TRUE,
          resolution |-> "reauthenticate"])

AuthFailed ==
    Dict([error |-> Msg("Authentication failed. Your access token is expired or invalid.", {}),
          error_code |-> "AUTH_FAILED",
          status |-> "failed",
          resolution |-> "reauthenticate"])

NotFound(ep, resp) ==
    Dict([error |-> Msg(ResourceType(ep) \o " not found. It may have been deleted or never existed.", {}),
          error_code |-> "NOT_FOUND",
          status |-> "failed",
          http_status |-> 404,
          details |-> ExtractErrorDetails(resp)])

RateLimited(resp) ==
    Dict([error |-> Msg("TickTick API rate limit exceeded. Please try again after N seconds.",
                        {"rate limit"}),
          error_code |-> "RATE_LIMITED",
          status |-> "failed",
          http_status |-> 429,
          retry_after |-> resp.retry_after,
          details |-> ExtractErrorDetails(resp)])

\* "TickTick server error (HTTP <status>). Please try again later."
ServerErrorText(status) ==
    Msg("TickTick server error (HTTP N). Please try again later.",
        {"server error"} \cup (IF status = 500 THEN {"500"} ELSE {})
                         \cup (IF status = 503 THEN {"503"} ELSE {}))

\* As IsTransient, for every 5xx
IsTransient_Every5xx(status) == status >= 500

IsTransient(status) == status \in TransientStatuses

ServerError(resp) ==
    Dict([error |-> ServerErrorText(resp.status),
          error_code |-> "SERVER_ERROR",
          status |-> "failed",
          http_status |-> resp.status,
          details |-> ExtractErrorDetails(resp),
          is_transient |-> IsTransient(resp.status)])

ClientError(resp) ==
    Dict([error |-> Msg("Request error: <detail>", ExtractErrorDetails(resp).has),
          error_code |-> ErrorCodeMap(resp.status),
          status |-> "failed",
          http_status |-> resp.status,
          details |-> ExtractErrorDetails(resp)])

NoContent(status) ==
    Dict([success |-> "True",
          status |-> "success",
          message |-> "Operation completed successfully",
          http_status |-> status])

InvalidFormat(resp) ==
    Dict([error |-> Msg("Invalid JSON response from TickTick API", {}),
          error_code |-> "INVALID_RESPONSE_FORMAT",
          status |-> "warning",
          http_status |-> resp.status,
          raw_response |-> "text"])

\* As ParsedBody, without the test of response.text
ParsedBody_NoTextTest(resp) ==
    CASE resp.body.t = "dict" ->
            IF "status" \in DOMAIN resp.body.d THEN resp.body
            ELSE Dict(Put(resp.body.d, "status", "success"))
      [] resp.body.t \in {"list", "null"} -> resp.body
      [] OTHER -> InvalidFormat(resp)

\* As ParsedBody, setting the status of every dict
ParsedBody_SetsStatus(resp) ==
    CASE resp.body.t = "dict" -> Dict(Put(resp.body.d, "status", "success"))
      [] resp.body.t \in {"list", "null"} -> resp.body
      [] resp.body.t = "text" -> InvalidFormat(resp)
      [] OTHER -> NoContent(resp.status)

\* CASE 7: the parsed body, with status "success" added to a dict that has none
ParsedBody(resp) ==
    CASE resp.body.t = "dict" ->
            IF "status" \in DOMAIN resp.body.d THEN resp.body
            ELSE Dict(Put(resp.body.d, "status", "success"))
      [] resp.body.t \in {"list", "null"} -> resp.body
      [] resp.body.t = "text" -> InvalidFormat(resp)
      [] OTHER -> NoContent(resp.status)

\* Without the last except clause the exception leaves _make_request
UnexpectedError_Escapes == [t |-> "raised"]

\* except Exception (lines 342-350)
UnexpectedError ==
    Dict([error |-> Msg("Unexpected error during API request: <exception>", {}),
          error_code |-> "UNEXPECTED_ERROR", status |-> "failed",
          details |-> Msg("<exception>", {})])

\* As ClassifyException, with the clause of RequestException before that of
\* Timeout
ClassifyException_BaseClassFirst(resp) ==
    CASE resp.kind \in {"timeout", "request_exception"} ->
            Dict([error |-> Msg("API request failed: <exception>", resp.has),
                  error_code |-> "REQUEST_FAILED", status |-> "failed",
                  details |-> Msg("<exception>", resp.has)])
      [] resp.kind = "connection" ->
            Dict([error |-> Msg("Unable to connect to TickTick API. Please check your internet connection.", {}),
                  error_code |-> "CONNECTION_ERROR", status |-> "failed",
                  is_transient |-> TRUE, details |-> Msg("<exception>", resp.has)])
      [] OTHER -> UnexpectedError

\* The except clauses of _make_request (lines 314-350), in their order
ClassifyException(resp) ==
    CASE resp.kind = "timeout" ->
            Dict([error |-> Msg("Request timed out after N seconds: <exception>", resp.has),
                  error_code |-> "TIMEOUT", status |-> "failed", is_transient |-> TRUE])
      [] resp.kind = "connection" ->
            Dict([error |-> Msg("Unable to connect to TickTick API. Please check your internet connection.", {}),
                  error_code |-> "CONNECTION_ERROR", status |-> "failed",
                  is_transient |-> TRUE, details |-> Msg("<exception>", resp.has)])
      [] resp.kind = "request_exception" ->
            Dict([error |-> Msg("API request failed: <exception>", resp.has),
                  error_code |-> "REQUEST_FAILED", status |-> "failed",
                  details |-> Msg("<exception>", resp.has)])
      [] OTHER -> UnexpectedError

\* As RetriesTransient, without the retry_on_error flag
RetriesTransient_IgnoringFlag(resp, retry) ==
    resp.kind = "http" /\ resp.status >= 500 /\ IsTransient(resp.status)

\* As RetriesTransient, with the 429 waited for and re-issued as well
RetriesTransient_On429(resp, retry) ==
    resp.kind = "http" /\ retry
        /\ (resp.status = 429 \/ (resp.status >= 500 /\ IsTransient(resp.status)))

\* The transient retry of CASE 4 is taken
RetriesTransient(resp, retry) ==
    resp.kind = "http" /\ resp.status >= 500 /\ IsTransient(resp.status) /\ retry

\* CASES 2 to 7 and the except clauses of _make_request, for a response that
\* is not retried
Classify(resp, ep) ==
    CASE resp.kind # "http" -> ClassifyException(resp)
      [] resp.status = 404 -> NotFound(ep, resp)
      [] resp.status = 429 -> RateLimited(resp)
      [] resp.status >= 500 -> ServerError(resp)
      [] resp.status >= 400 -> ClientError(resp)
      [] resp.status = 204 -> NoContent(204)
      [] OTHER -> ParsedBody(resp)


----------------------------------------------------------------------------
(* The upstream service *)

ProjectId == "p1"

TaskId == "t1"

ProjectDict == [id |-> ProjectId, name |-> "P"]

\* Fields of a task the upstream manages itself
ServerManaged == {"createdTime", "completedTime", "modifiedTime", "etag", "timeZone", "sortOrder"}

\* The value of status that complete_task takes for completed
CompletedStatus == "2"

NoBody == [t |-> "empty"]

Http(status, body) == [kind |-> "http", status |-> status, body |-> body, retry_after |-> "60"]

Exception(kind) == [kind |-> kind, has |-> {}]

Answer(resp, upAfter) == [resp |-> resp, up |-> upAfter]

FaultStatuses ==
    {200, 201, 204, 400, 401, 403, 405, 409, 413, 415, 418, 422, 429, 500, 501, 502, 503, 504}

\* A body that is text and does not parse as JSON
TextBody == [t |-> "text", has |-> {}]

\* A body that parses as the JSON value null
NullBody == [t |-> "null"]

\* Retry-After headers of a 429, other than the "60" assumed for a missing one
RetryAfterHeaders == {"5"}

\* requests.exceptions.Timeout, ConnectionError, another RequestException, and
\* an exception that is none of them
FaultExceptions == {"timeout", "connection", "request_exception", "unexpected"}

\* Answers that do not come from the store and leave it unchanged: the faults
\* this upstream shows.  The text of a timeout may hold the word "timeout"
\* ("Read timed out. (read timeout=30)") or not
Faults(u) ==
    {Answer(Http(s, NoBody), u) : s \in u.statuses}
        \cup {Answer(Http(s, b), u) : s \in u.statuses \cap 200..299, b \in {TextBody, NullBody}}
        \cup {Answer([Http(429, NoBody) EXCEPT !.retry_after = h], u) :
                    h \in IF 429 \in u.statuses THEN RetryAfterHeaders ELSE {}}
        \cup {Answer(Exception(k), u) : k \in u.exceptions}
        \cup {Answer([Exception(k) EXCEPT !.has = {"timeout"}], u) :
                    k \in u.exceptions \cap {"timeout"}}

TaskExists(u) == u.project /\ u.tasks # {}

TheTask(u) == CHOOSE d \in u.tasks : TRUE

\* The task after the upstream has replaced the whole object by the payload:
\* the payload's fields, and the upstream's own server-managed fields
Replaced(old, payload) ==
    [k \in (DOMAIN payload \ ServerManaged) \cup (DOMAIN old \cap ServerManaged) |->
        IF k \in ServerManaged THEN old[k] ELSE payload[k]]

\* What the upstream may hold after an update: the payload in place of the
\* object, or, if this upstream alters what it is sent, the same without the
\* content or with the priority it had
Written(old, payload, u) ==
    LET new == Replaced(old, payload)
    IN {new} \cup (IF u.alters
                   THEN {Drop(new, {"content"}), Put(new, "priority", Get(old, "priority", "0"))}
                   ELSE {})

\* The task after the upstream has completed it
Completed(old) == Put(Put(old, "status", CompletedStatus), "completedTime", "ts")

CreatedId == "t2"

\* What the upstream may store for a created task: the fields as sent, or, if
\* this upstream alters what it is sent, a title or a priority of its own, or
\* no content
Stored(data, u) ==
    LET base == Put(Put(data, "id", CreatedId), "status", "0")
    IN {base} \cup (IF u.alters
                    THEN {Put(base, "title", "A2"), Put(base, "priority", "3"),
                          Drop(base, {"content"})}
                    ELSE {})

CreatedProjectId == "p2"

\* What the upstream may store for a created project: the properties as sent,
\* or, if this upstream alters what it is sent, a name of its own or no view
\* mode
StoredProject(data, u) ==
    LET base == Put(data, "id", CreatedProjectId)
    IN {base} \cup (IF u.alters
                    THEN {Put(base, "name", "Q2"), Drop(base, {"viewMode"})}
                    ELSE {})

\* What the store answers to a request
Faithful(m, ep, data, u) ==
    CASE m = "GET" /\ ep = EpProject ->
            IF u.project THEN {Answer(Http(200, Dict(ProjectDict)), u)}
            ELSE {Answer(Http(404, NoBody), u)}
      [] m = "GET" /\ ep = EpTask ->
            IF TaskExists(u) THEN {Answer(Http(200, Dict(TheTask(u))), u)}
            ELSE {Answer(Http(404, NoBody), u)}
      [] m = "POST" /\ ep = EpTaskUpdate ->
            IF TaskExists(u)
            THEN {Answer(Http(200, Dict(new)), [u EXCEPT !.tasks = {new}]) :
                        new \in Written(TheTask(u), data.d, u)}
            ELSE {Answer(Http(404, NoBody), u)}
      [] m = "POST" /\ ep = EpComplete ->
            IF TaskExists(u)
            THEN {Answer(Http(200, NoBody), [u EXCEPT !.tasks = {Completed(TheTask(u))}]),
                  Answer(Http(200, NoBody),
                         [u EXCEPT !.tasks = {Put(TheTask(u), "status", CompletedStatus)}]),
                  Answer(Http(200, NoBody), u)}
            ELSE {Answer(Http(404, NoBody), u)}
      [] m = "DELETE" /\ ep = EpTask ->
            IF TaskExists(u)
            THEN {Answer(Http(200, NoBody), [u EXCEPT !.tasks = {}]),
                  Answer(Http(200, NoBody), u)}
            ELSE {Answer(Http(404, NoBody), u)}
      [] m = "GET" /\ ep = EpProjectData ->
            IF u.project
            THEN {Answer(Http(200, Dict([project |-> ProjectDict,
                                         tasks |-> IF u.tasks = {} THEN <<>> ELSE <<TheTask(u)>>])), u)}
            ELSE {Answer(Http(404, NoBody), u)}
      [] m = "DELETE" /\ ep = EpProject ->
            IF u.project
            THEN {Answer(Http(200, NoBody), [u EXCEPT !.project = FALSE, !.tasks = {}]),
                  Answer(Http(200, NoBody), u)}
            ELSE {Answer(Http(404, NoBody), u)}
      [] m = "GET" /\ ep = EpProjects ->
            {Answer(Http(200, List(IF u.project THEN <<ProjectDict>> ELSE <<>>)), u)}
      [] m = "POST" /\ ep = EpProjects ->
            {Answer(Http(200, Dict(d)), [u EXCEPT !.created = {d}]) : d \in StoredProject(data.d, u)}
      [] m = "GET" /\ ep = EpCreatedProject ->
            IF u.created # {}
            THEN {Answer(Http(200, Dict(d)), u) : d \in u.created} \cup {Answer(Http(404, NoBody), u)}
            ELSE {Answer(Http(404, NoBody), u)}
      [] m = "POST" /\ ep = EpTaskCreate ->
            {Answer(Http(200, Dict(d)), [u EXCEPT !.created = {d}]) : d \in Stored(data.d, u)}
      [] m = "GET" /\ ep = EpCreatedTask ->
            IF u.created # {}
            THEN {Answer(Http(200, Dict(d)), u) : d \in u.created} \cup {Answer(Http(404, NoBody), u)}
            ELSE {Answer(Http(404, NoBody), u)}
      [] m = "POST" /\ ep = EpBatch ->
            {Answer(Http(200, Dict([add |-> data.d.add])), u),
             Answer(Http(200, Dict([status |-> "failed"])), u)}
      [] OTHER -> {}

\* A DELETE of a task that takes effect while its answer is lost or is a
\* server error
Lost(m, ep, data, u) ==
    IF m = "DELETE" /\ ep = EpTask /\ TaskExists(u)
    THEN {Answer(f.resp, [u EXCEPT !.tasks = {}]) :
                f \in {g \in Faults(u) : g.resp.kind # "http" \/ g.resp.status >= 500}}
    ELSE {}

Answers(m, ep, data, u) == Faithful(m, ep, data, u) \cup Faults(u) \cup Lost(m, ep, data, u)

----------------------------------------------------------------------------
(* Token refresh *)

\* A token other than the one in use
Fresh(tokens, current) == CHOOSE t \in tokens : t # current

\* What the token endpoint may answer with when it accepts the refresh token: a
\* document with or without an access token, with or without a new refresh token
TokenDocuments(client, u) ==
    LET a == Fresh(AccessTokens, client.access_token)
        r == Fresh(RefreshTokens, client.refresh_token)
    IN IF u.auth = "plain" THEN {[access_token |-> a]}
       ELSE {[access_token |-> a], [access_token |-> a, refresh_token |-> r],
             EmptyDict, [refresh_token |-> r]}

RefreshResult(result, client, file, requests, tokens) ==
    [result |-> result, cl |-> client, env |-> file, requests |-> requests, tokens |-> tokens]

\* _save_tokens_to_env: the file after the tokens have been written
SaveTokensToEnv(file, tokens) ==
    [access_token |-> Get(tokens, "access_token", ""),
     refresh_token |-> Get(tokens, "refresh_token", file.refresh_token)]

\* As WithTokens, without the update of the Authorization header
WithTokens_StaleHeader(client, tokens) ==
    [client EXCEPT !.access_token = Get(tokens, "access_token", NONE),
                   !.refresh_token = Get(tokens, "refresh_token", client.refresh_token)]

\* As WithTokens, with the refresh token taken from the document whether or
\* not it holds one
WithTokens_ClearsRefresh(client, tokens) ==
    [client EXCEPT !.access_token = Get(tokens, "access_token", NONE),
                   !.refresh_token = Get(tokens, "refresh_token", NONE),
                   !.auth = Get(tokens, "access_token", NONE)]

\* The client after lines 78-83
WithTokens(client, tokens) ==
    [client EXCEPT !.access_token = Get(tokens, "access_token", NONE),
                   !.refresh_token = Get(tokens, "refresh_token", client.refresh_token),
                   !.auth = Get(tokens, "access_token", NONE)]

\* As RefreshAccessToken, without the test of the client secret
RefreshAccessToken_NoSecretTest(client, file, u) ==
    IF ~Truthy(client.refresh_token) \/ ~Truthy(client.client_id)
    THEN {RefreshResult("False", client, file, 0, EmptyDict)}
    ELSE {RefreshResult("False", client, file, 1, EmptyDict)}
         \cup {RefreshResult("True", WithTokens(client, t), SaveTokensToEnv(file, t), 1, t) :
                    t \in TokenDocuments(client, u)}
         \cup {RefreshResult("raised", WithTokens(client, t), file, 1, t) :
                    t \in IF u.auth = "plain" THEN {} ELSE TokenDocuments(client, u)}

\* As RefreshAccessToken, with the client's tokens cleared before the token
\* request is sent
RefreshAccessToken_ClearsFirst(client, file, u) ==
    IF ~Truthy(client.refresh_token) \/ ~Truthy(client.client_id) \/ ~Truthy(client.client_secret)
    THEN {RefreshResult("False", client, file, 0, EmptyDict)}
    ELSE {RefreshResult("False", WithTokens(client, EmptyDict), file, 1, EmptyDict)}
         \cup {RefreshResult("True", WithTokens(client, t), SaveTokensToEnv(file, t), 1, t) :
                    t \in TokenDocuments(client, u)}
         \cup {RefreshResult("raised", WithTokens(client, t), file, 1, t) :
                    t \in IF u.auth = "plain" THEN {} ELSE TokenDocuments(client, u)}

\* As RefreshAccessToken, saving the tokens before it assigns them
RefreshAccessToken_SavesFirst(client, file, u) ==
    IF ~Truthy(client.refresh_token) \/ ~Truthy(client.client_id) \/ ~Truthy(client.client_secret)
    THEN {RefreshResult("False", client, file, 0, EmptyDict)}
    ELSE {RefreshResult("False", client, file, 1, EmptyDict)}
         \cup {RefreshResult("True", WithTokens(client, t), SaveTokensToEnv(file, t), 1, t) :
                    t \in TokenDocuments(client, u)}
         \cup {RefreshResult("raised", client, file, 1, t) :
                    t \in IF u.auth = "plain" THEN {} ELSE TokenDocuments(client, u)}

\* _refresh_access_token: every outcome it can have from this client state
RefreshAccessToken(client, file, u) ==
    IF ~Truthy(client.refresh_token) \/ ~Truthy(client.client_id) \/ ~Truthy(client.client_secret)
    THEN {RefreshResult("False", client, file, 0, EmptyDict)}
    ELSE {RefreshResult("False", client, file, 1, EmptyDict)}
         \cup {RefreshResult("True", WithTokens(client, t), SaveTokensToEnv(file, t), 1, t) :
                    t \in TokenDocuments(client, u)}
         \cup {RefreshResult("raised", WithTokens(client, t), file, 1, t) :
                    t \in IF u.auth = "plain" THEN {} ELSE TokenDocuments(client, u)}

----------------------------------------------------------------------------
(* Transport: _make_request, one step per HTTP exchange *)

Idle == [phase |-> "idle"]

ZeroCnt == [req |-> 0, frameReq |-> 0, refresh |-> 0, tokenReq |-> 0, sleep |-> 0,
            lastAuth |-> NONE, lastWhy |-> "none", lastM |-> "none", lastEp |-> "none",
            firstM |-> "none", firstEp |-> "none",
            saw401 |-> FALSE, sawTransient |-> FALSE, refreshOk |-> 0, refreshFailed |-> 0,
            retryFlags |-> {}, issued |-> NONE, rate |-> NONE,
            issuedRefresh |-> NONE, tokenFailed |-> 0, lastStatus |-> 0,
            lastKind |-> "none", lastBody |-> "none", body |-> NoBody]

\* The request is on the wire: count it, with the header it carries
Issued(c, request, why) ==
    [c EXCEPT !.req = @ + 1, !.frameReq = @ + 1,
              !.lastAuth = cl.auth, !.lastWhy = why,
              !.lastM = request.m, !.lastEp = request.ep,
              !.firstM = IF c.req = 0 THEN request.m ELSE @,
              !.firstEp = IF c.req = 0 THEN request.ep ELSE @,
              !.retryFlags = @ \cup {request.retry}]

\* What the body of a response is: a dict, a list, null, text that is not JSON,
\* or empty
BodyOf(resp) == IF resp.kind = "http" THEN resp.body.t ELSE "none"

\* The body the call has received last, none when the request raised instead
Received(resp) == IF resp.kind = "http" THEN resp.body ELSE NoBody

\* The status of a response, 0 when the request raised instead
StatusOf(resp) == IF resp.kind = "http" THEN resp.status ELSE 0

\* The Retry-After of the 429 the call has received, if any
Limited(resp, rate) ==
    IF resp.kind = "http" THEN (IF resp.status = 429 THEN resp.retry_after ELSE rate) ELSE rate

\* A recursive call that passes its own retry_on_error on
Deliver_KeepsRetry(resp, c) ==
    IF RetriesTransient(resp, tp.retry)
    THEN /\ tp' = [tp EXCEPT !.phase = "send"]
         /\ cnt' = [c EXCEPT !.sleep = @ + 1, !.frameReq = 0, !.sawTransient = TRUE,
                              !.rate = Limited(resp, @), !.lastStatus = StatusOf(resp),
                              !.lastKind = resp.kind, !.lastBody = BodyOf(resp),
                              !.body = Received(resp)]
         /\ ret' = ret
    ELSE /\ tp' = [tp EXCEPT !.phase = "done"]
         /\ cnt' = [c EXCEPT !.sawTransient =
                        @ \/ (resp.kind = "http" /\ IsTransient(resp.status)),
                              !.rate = Limited(resp, @), !.lastStatus = StatusOf(resp),
                              !.lastKind = resp.kind, !.lastBody = BodyOf(resp),
                              !.body = Received(resp)]
         /\ ret' = Classify(resp, tp.ep)

\* The rest of _make_request once the response to classify is known: the
\* recursive call of line 237 or the returned value
Deliver(resp, c) ==
    IF RetriesTransient(resp, tp.retry)
    THEN /\ tp' = [tp EXCEPT !.phase = "send", !.retry = FALSE]
         /\ cnt' = [c EXCEPT !.sleep = @ + 1, !.frameReq = 0, !.sawTransient = TRUE,
                              !.rate = Limited(resp, @), !.lastStatus = StatusOf(resp),
                              !.lastKind = resp.kind, !.lastBody = BodyOf(resp),
                              !.body = Received(resp)]
         /\ ret' = ret
    ELSE /\ tp' = [tp EXCEPT !.phase = "done"]
         /\ cnt' = [c EXCEPT !.sawTransient =
                        @ \/ (resp.kind = "http" /\ IsTransient(resp.status)),
                              !.rate = Limited(resp, @), !.lastStatus = StatusOf(resp),
                              !.lastKind = resp.kind, !.lastBody = BodyOf(resp),
                              !.body = Received(resp)]
         /\ ret' = Classify(resp, tp.ep)

\* Lines 160-168: the request is sent; a 401 leads to the refresh
Send ==
    /\ tp.phase = "send"
    /\ \E a \in Answers(tp.m, tp.ep, tp.data, up) :
        /\ up' = a.up
        /\ LET c == Issued(cnt, tp, IF tp.retry THEN "first" ELSE "retry") IN
            IF a.resp.kind = "http" /\ a.resp.status = 401
            THEN /\ tp' = [tp EXCEPT !.phase = "refresh"]
                 /\ cnt' = [c EXCEPT !.saw401 = TRUE, !.lastStatus = 401, !.lastKind = "http"]
                 /\ ret' = ret
            ELSE Deliver(a.resp, c)
    /\ UNCHANGED <<cl, env, op, pc, loc, opc, out, loop>>

\* The token request of this refresh failed: it was sent, and requests.post or
\* raise_for_status raised (lines 91-93)
TokenFailures(r) == IF r.requests = 1 /\ r.result = "False" THEN 1 ELSE 0

\* Lines 171-194: the refresh after a 401
Refresh ==
    /\ tp.phase = "refresh"
    /\ \E r \in RefreshAccessToken(cl, env, up) :
        /\ cl' = r.cl
        /\ env' = r.env
        /\ LET c == [cnt EXCEPT !.refresh = @ + 1, !.tokenReq = @ + r.requests,
                                  !.tokenFailed = @ + TokenFailures(r)] IN
            CASE r.result = "True" ->
                    /\ tp' = [tp EXCEPT !.phase = "resend"]
                    /\ cnt' = [c EXCEPT !.refreshOk = @ + 1,
                                         !.issued = Get(r.tokens, "access_token", NONE),
                                         !.issuedRefresh = Get(r.tokens, "refresh_token", NONE)]
                    /\ ret' = ret
              [] r.result = "False" ->
                    /\ tp' = [tp EXCEPT !.phase = "done"]
                    /\ cnt' = [c EXCEPT !.refreshFailed = @ + 1]
                    /\ ret' = AuthFailed
              [] OTHER ->
                    /\ tp' = [tp EXCEPT !.phase = "done"]
                    /\ cnt' = [c EXCEPT !.issued = Get(r.tokens, "access_token", NONE),
                                         !.issuedRefresh = Get(r.tokens, "refresh_token", NONE)]
                    /\ ret' = UnexpectedError
    /\ UNCHANGED <<up, op, pc, loc, opc, out, loop>>

\* A re-issued request whose 401 leads to another refresh
Resend_RefreshesAgain ==
    /\ tp.phase = "resend"
    /\ \E a \in Answers(tp.m, tp.ep, tp.data, up) :
        /\ up' = a.up
        /\ LET c == Issued(cnt, tp, "resend") IN
            IF a.resp.kind = "http" /\ a.resp.status = 401 /\ cnt.refresh < 3
            THEN /\ tp' = [tp EXCEPT !.phase = "refresh"]
                 /\ cnt' = [c EXCEPT !.saw401 = TRUE, !.lastStatus = 401, !.lastKind = "http"]
                 /\ ret' = ret
            ELSE Deliver(a.resp, c)
    /\ UNCHANGED <<cl, env, op, pc, loc, opc, out, loop>>

\* Lines 178-186: the same request again, with the refreshed header
Resend ==
    /\ tp.phase = "resend"
    /\ \E a \in Answers(tp.m, tp.ep, tp.data, up) :
        /\ up' = a.up
        /\ Deliver(a.resp, Issued(cnt, tp, "resend"))
    /\ UNCHANGED <<cl, env, op, pc, loc, opc, out, loop>>

----------------------------------------------------------------------------
(* Operations *)

NoOp == [name |-> "none"]

NoLoc == [k \in {} |-> NONE]

ZeroOpc == [calls |-> 0, posts |-> 0, deletes |-> 0, before |-> {}, limited |-> {}]

NoData == [t |-> "none"]

\* The operation's count of its transport calls, and of those that write
Counted(o, m) ==
    [o EXCEPT !.calls = @ + 1,
              !.posts = IF m = "POST" THEN @ + 1 ELSE @,
              !.deletes = IF m = "DELETE" THEN @ + 1 ELSE @]

\* self._make_request(method, endpoint, data), to continue at `next`
Call(m, ep, data, next) ==
    /\ tp' = [phase |-> "send", m |-> m, ep |-> ep, data |-> data, retry |-> TRUE]
    /\ cnt' = ZeroCnt
    /\ pc' = next
    /\ ret' = Dict(EmptyDict)

Returned(at) == pc = at /\ tp.phase = "done"

\* The operation returns `value`
Leave(value) ==
    /\ out' = value
    /\ pc' = "idle"
    /\ tp' = Idle
    /\ loc' = NoLoc
    /\ ret' = Dict(EmptyDict)
    /\ cnt' = ZeroCnt

(* The event loop of the server: a tool invocation is a coroutine, which runs
   from the point the loop resumes it to its next await or to its return *)

Tasks == 1..MaxTasks

NoTasks == [i \in Tasks |-> "none"]

\* As Awaits, for tools that await the response of each request
Awaits_DuringRequest(position) == position # "idle" /\ tp.phase \in {"send", "resend"}

\* The coroutine of a tool is at an await: the tools of server.py contain no
\* await expression, and the client they call is synchronous
Awaits(position) == FALSE

\* The body of the invocation the loop has picked starts to run
Started(l) ==
    IF \E i \in Tasks : l[i] = "dispatched"
    THEN [l EXCEPT ![CHOOSE i \in Tasks : l[i] = "dispatched"] = "running"]
    ELSE l

\* The running invocation returns
Finished(l) == [i \in Tasks |-> IF l[i] = "running" THEN "none" ELSE l[i]]

\* An operation is entered
Enter(operation) ==
    /\ pc = "idle"
    /\ op' = operation
    /\ UNCHANGED <<cl, env, up>>

\* An operation is entered and makes its first transport call
Begin(operation, m, ep, data, next, locals) ==
    /\ Enter(operation)
    /\ Call(m, ep, data, next)
    /\ loc' = locals
    /\ opc' = Counted([ZeroOpc EXCEPT !.before = up.tasks], m)
    /\ out' = Dict(EmptyDict)
    /\ loop' = Started(loop)

\* An operation is entered and returns without a transport call
Reject(operation, value) ==
    /\ Enter(operation)
    /\ Leave(value)
    /\ opc' = [ZeroOpc EXCEPT !.before = up.tasks]
    /\ loop' = Finished(Started(loop))

IsRateLimited(r) == HasError(r) /\ Get(r.d, "error_code", NONE) = "RATE_LIMITED"

\* The requests of the operation that have been answered 429 so far
Limits(o) ==
    [o EXCEPT !.limited = @ \cup (IF IsRateLimited(ret) THEN {<<tp.m, tp.ep>>} ELSE {})]

\* The operation goes on with another transport call
Continue(m, ep, data, next, locals) ==
    /\ Call(m, ep, data, next)
    /\ loc' = locals
    /\ opc' = Counted(Limits(opc), m)
    /\ UNCHANGED <<cl, env, up, op, out, loop>>

\* The operation returns `value` after its last transport call
Finish(value) ==
    /\ Leave(value)
    /\ loop' = Finished(loop)
    /\ UNCHANGED <<cl, env, up, op, opc>>

\* A request of the MCP client is received: its handler is ready to run
Arrive ==
    /\ \E i \in Tasks :
        /\ loop[i] = "none"
        /\ loop' = [loop EXCEPT ![i] = "ready"]
    /\ UNCHANGED <<cl, env, up, op, pc, loc, tp, ret, cnt, opc, out>>

\* The loop resumes a handler that is ready; it does so when no coroutine is
\* running or the running one is at an await, which suspends it
Dispatch ==
    /\ \A j \in Tasks : loop[j] \in {"dispatched", "running"} => Awaits(pc)
    /\ \E i \in Tasks :
        /\ loop[i] = "ready"
        /\ loop' = [j \in Tasks |->
                        IF j = i THEN "dispatched"
                        ELSE IF loop[j] \in {"dispatched", "running"} THEN "suspended"
                        ELSE loop[j]]
    /\ UNCHANGED <<cl, env, up, op, pc, loc, tp, ret, cnt, opc, out>>

\* An invocation has been picked by the loop and its body has not started
Dispatched == \E i \in Tasks : loop[i] = "dispatched"

(* get_project *)

GetProjectStart ==
    Begin([name |-> "get_project"], "GET", EpProject, NoData, "get_project", NoLoc)

GetProjectReturn ==
    /\ Returned("get_project")
    /\ Finish(ret)

(* get_projects and get_task *)

GetProjectsStart ==
    Begin([name |-> "get_projects"], "GET", EpProjects, NoData, "get_projects", NoLoc)

\* Lines 386-390: every project of a list gets an identifier
Identified(result) ==
    IF result.t = "list"
    THEN List([i \in 1..Len(result.l) |->
                IF {"id", "name"} \subseteq DOMAIN result.l[i]
                THEN Put(result.l[i], "identifier", "<name> (ID: <id>)")
                ELSE result.l[i]])
    ELSE result

GetProjectsReturn ==
    /\ Returned("get_projects")
    /\ Finish(Identified(ret))

GetTaskStart ==
    Begin([name |-> "get_task"], "GET", EpTask, NoData, "get_task", NoLoc)

GetTaskReturn ==
    /\ Returned("get_task")
    /\ Finish(ret)

(* update_task of the client *)

\* str.strip() of the titles of the model
Strip(title) == IF title = " B " THEN "B" ELSE title

UpdateArgs ==
    {[title |-> t, priority |-> p, content |-> NONE] :
        t \in {NONE, "B", " B "}, p \in {NONE, "1"}}

NoUpdateArgs == [title |-> NONE, priority |-> NONE, content |-> NONE]

SetIfGiven(d, k, v) == IF v # NONE THEN Put(d, k, v) ELSE d

\* Lines 515-587: the payload built from the fetched task and the arguments
\* (tags is None)
UpdatePayload(current, a) ==
    LET d0 == Put(Put(current, "id", TaskId), "projectId", ProjectId)
        d1 == IF a.title # NONE THEN Put(d0, "title", Strip(a.title)) ELSE d0
        d2 == SetIfGiven(d1, "content", a.content)
        d3 == SetIfGiven(d2, "priority", a.priority)
    IN Drop(d3, ServerManaged)

UpdateTaskStart ==
    \E a \in UpdateArgs :
        Begin([name |-> "update_task", args |-> a], "GET", EpTask, NoData, "ut_fetch", NoLoc)

\* As UpdateTaskFetched, without the test of the fetched task
UpdateTaskFetched_NoTest ==
    /\ Returned("ut_fetch")
    /\ LET data == UpdatePayload(ret.d, op.args)
       IN Continue("POST", EpTaskUpdate, Dict(data), "ut_write",
                   [current |-> ret.d, data |-> data])

UpdateTaskFetched ==
    /\ Returned("ut_fetch")
    /\ IF HasError(ret)
       THEN Finish(ret)
       ELSE LET data == UpdatePayload(ret.d, op.args)
            IN Continue("POST", EpTaskUpdate, Dict(data), "ut_write",
                        [current |-> ret.d, data |-> data])

UpdateTaskWritten ==
    /\ Returned("ut_write")
    /\ Finish(ret)

(* delete_task of the client *)

\* retry_count: int = 1
DefaultRetryCount == 1

RecoverableErrors == {"timeout", "rate limit", "server error", "500", "503"}

\* As Recoverable, for every error
Recoverable_Any(result) == TRUE

\* any(err in str(result['error']).lower() for err in recoverable_errors)
Recoverable(result) == result.d.error.has \cap RecoverableErrors # {}

\* "404" in str(task.get('error', ''))
Mentions404(result) == "404" \in result.d.error.has

ProjectNotFound(project) ==
    Dict([error |-> Msg("Cannot delete task: Project not found - <error>", project.d.error.has),
          error_code |-> "PROJECT_NOT_FOUND",
          status |-> "failed",
          http_status |-> 404])

TaskPrecheckFailed(task) ==
    Dict([error |-> Msg("Cannot delete task: <error>", task.d.error.has),
          error_code |-> IF Mentions404(task) THEN "TASK_NOT_FOUND" ELSE "TASK_FETCH_ERROR",
          status |-> "failed",
          http_status |-> IF Mentions404(task) THEN 404 ELSE 400])

ApiError(result) ==
    Dict([error |-> Msg("API error while deleting task: <error>", result.d.error.has),
          error_code |-> "API_ERROR",
          status |-> "failed",
          task_details |-> "details"])

\* As DeleteVerified, with no status for the task that is still there
DeleteVerified_NoStatus(verification) ==
    IF HasError(verification) /\ Mentions404(verification)
    THEN Dict([success |-> "True", status |-> "success",
               message |-> Msg("Task deleted successfully", {}),
               task_details |-> "details"])
    ELSE IF HasError(verification)
    THEN Dict([status |-> "warning",
               message |-> Msg("Task deletion reported as successful, but verification failed: <error>",
                               verification.d.error.has),
               task_details |-> "details",
               requires_verification |-> "True"])
    ELSE Dict([message |-> Msg("Task deletion processed successfully. The task may still be accessible", {}),
               warning_code |-> "DELETION_SYNC_DELAY",
               has_sync_delay |-> "True",
               task_details |-> "details"])

\* Lines 819-848: the result of delete_task from the verification fetch
DeleteVerified(verification) ==
    IF HasError(verification) /\ Mentions404(verification)
    THEN Dict([success |-> "True", status |-> "success",
               message |-> Msg("Task deleted successfully", {}),
               task_details |-> "details"])
    ELSE IF HasError(verification)
    THEN Dict([status |-> "warning",
               message |-> Msg("Task deletion reported as successful, but verification failed: <error>",
                               verification.d.error.has),
               task_details |-> "details",
               requires_verification |-> "True"])
    ELSE Dict([message |-> Msg("Task deletion processed successfully. The task may still be accessible", {}),
               warning_code |-> "DELETION_SYNC_DELAY",
               status |-> "success",
               has_sync_delay |-> "True",
               task_details |-> "details"])

\* The outcome of the tool, with the result of the client's delete_task
ToolText(mark, what, result) == [t |-> "text", mark |-> mark, what |-> what, result |-> result]

\* Lines 853-896 of the server: the tool's step after delete_task has returned
DeleteToolOutcome(result) ==
    IF HasError(result)
    THEN Finish(ToolText("error", "Error deleting task", result))
    ELSE IF Get(result.d, "status", NONE) = "success"
    THEN Finish(ToolText("success",
                         IF Truthy(Get(result.d, "has_sync_delay", NONE))
                         THEN "deletion was processed successfully"
                         ELSE "Task deleted successfully!", result))
    ELSE IF Get(result.d, "status", NONE) = "warning"
    THEN Finish(ToolText("warning", "Task deletion reported as successful, but verification encountered an issue", result))
    ELSE IF Get(result.d, "status", NONE) = "failed"
    THEN Finish(ToolText("failed", "Error", result))
    ELSE Continue("GET", EpProjectData, NoData, "dd_listing", [result |-> result])

\* delete_task returns to its caller: the client's caller, or the tool
DeleteTaskReturn(result) ==
    IF op.name = "delete_task_tool" THEN DeleteToolOutcome(result) ELSE Finish(result)

\* Lines 850-857: except Exception
DeleteUnexpected ==
    Dict([error |-> Msg("Failed to delete task: <exception>", {}),
          error_code |-> "UNEXPECTED_ERROR",
          status |-> "failed",
          details |-> "<exception>"])

DeleteTaskStart ==
    \E rc \in 0..DefaultRetryCount :
        Begin([name |-> "delete_task", retry_count |-> rc], "GET", EpProject, NoData,
              "dt_project", [retry_count |-> rc])

DeleteTaskProjectChecked ==
    /\ Returned("dt_project")
    /\ IF MembershipRaises(ret)
       THEN DeleteTaskReturn(DeleteUnexpected)
       ELSE IF HasError(ret)
       THEN DeleteTaskReturn(ProjectNotFound(ret))
       ELSE Continue("GET", EpTask, NoData, "dt_task", loc)

DeleteTaskTaskChecked ==
    /\ Returned("dt_task")
    /\ IF MembershipRaises(ret)
       THEN DeleteTaskReturn(DeleteUnexpected)
       ELSE IF HasError(ret)
       THEN DeleteTaskReturn(TaskPrecheckFailed(ret))
       ELSE Continue("DELETE", EpTask, NoData, "dt_delete", loc)

\* As DeleteTaskDeleted, re-running with the budget it had
DeleteTaskDeleted_KeepsBudget ==
    /\ Returned("dt_delete")
    /\ IF MembershipRaises(ret)
       THEN DeleteTaskReturn(DeleteUnexpected)
       ELSE IF HasError(ret)
       THEN IF Recoverable(ret) /\ loc.retry_count > 0
            THEN Continue("GET", EpProject, NoData, "dt_project", loc)
            ELSE DeleteTaskReturn(ApiError(ret))
       ELSE Continue("GET", EpTask, NoData, "dt_verify", loc)

\* As DeleteTaskDeleted, re-running from the DELETE
DeleteTaskDeleted_SkipsPrechecks ==
    /\ Returned("dt_delete")
    /\ IF MembershipRaises(ret)
       THEN DeleteTaskReturn(DeleteUnexpected)
       ELSE IF HasError(ret)
       THEN IF Recoverable(ret) /\ loc.retry_count > 0
            THEN Continue("DELETE", EpTask, NoData, "dt_delete",
                          [loc EXCEPT !.retry_count = @ - 1])
            ELSE DeleteTaskReturn(ApiError(ret))
       ELSE Continue("GET", EpTask, NoData, "dt_verify", loc)

DeleteTaskDeleted ==
    /\ Returned("dt_delete")
    /\ IF MembershipRaises(ret)
       THEN DeleteTaskReturn(DeleteUnexpected)
       ELSE IF HasError(ret)
       THEN IF Recoverable(ret) /\ loc.retry_count > 0
            THEN Continue("GET", EpProject, NoData, "dt_project",
                          [loc EXCEPT !.retry_count = @ - 1])
            ELSE DeleteTaskReturn(ApiError(ret))
       ELSE Continue("GET", EpTask, NoData, "dt_verify", loc)

DeleteTaskVerified ==
    /\ Returned("dt_verify")
    /\ IF MembershipRaises(ret)
       THEN DeleteTaskReturn(DeleteUnexpected)
       ELSE DeleteTaskReturn(DeleteVerified(ret))

(* delete_task of the server *)

DeleteToolStart ==
    Begin([name |-> "delete_task_tool", retry_count |-> DefaultRetryCount], "GET", EpProject,
          NoData, "dd_project", NoLoc)

DeleteToolProjectChecked ==
    /\ Returned("dd_project")
    /\ IF MembershipRaises(ret)
       THEN Finish(ToolText("error", "Unexpected error deleting task", Dict(EmptyDict)))
       ELSE IF HasError(ret)
       THEN Finish(ToolText("error", "Project not found", Dict(EmptyDict)))
       ELSE Continue("GET", EpTask, NoData, "dd_task", loc)

\* Lines 904-916: the outcome from the listing of the project
DeleteToolListed(project_data) ==
    IF HasError(project_data)
    THEN "We couldn't verify the task's removal from project view"
    ELSE IF \E i \in 1..Len(Get(project_data.d, "tasks", <<>>)) :
                Get(project_data.d.tasks[i], "id", NONE) = TaskId
    THEN "it may still appear in the project for a short time"
    ELSE "deleted and removed from your project view"

\* Lines 833-850: the task pre-check and the call of the client's delete_task;
\* lines 896-918: the return after the listing of the project
DeleteToolChecked ==
    /\ tp.phase = "done" /\ pc \in {"dd_task", "dd_listing"}
    /\ IF pc = "dd_listing"
       THEN Finish(ToolText("fallback", DeleteToolListed(ret), loc.result))
       ELSE IF MembershipRaises(ret)
       THEN Finish(ToolText("error", "Unexpected error deleting task", Dict(EmptyDict)))
       ELSE IF HasError(ret)
       THEN Finish(ToolText("error", IF Mentions404(ret) THEN "Task not found"
                                     ELSE "Error finding task to delete", Dict(EmptyDict)))
       ELSE Continue("GET", EpProject, NoData, "dt_project",
                     [retry_count |-> DefaultRetryCount])

(* complete_task of the server *)

Text(mark, what) == [t |-> "text", mark |-> mark, what |-> what]

\* status_map of format_task and of complete_task
StatusMap(status) ==
    CASE status = "0" -> "Active"
      [] status = "1" -> "Completed"
      [] status = "2" -> "Archived"
      [] OTHER -> "Unknown"

\* current_status == 2
AlreadyComplete(task) == Get(task, "status", "0") = "2"

\* A verification that does not look at completedTime
CompleteVerified_IgnoresTime(updated) ==
    IF HasError(updated) THEN Text("warning", "marked as complete, but verification failed")
    ELSE IF Get(updated.d, "status", "0") # "2"
    THEN Text("warning", "completion reported as successful, but status did not change")
    ELSE Text("success", "marked as complete successfully")

\* Lines 779-806: the outcome from the verification fetch
CompleteVerified(updated) ==
    IF HasError(updated) THEN Text("warning", "marked as complete, but verification failed")
    ELSE IF Get(updated.d, "status", "0") # "2"
    THEN Text("warning", "completion reported as successful, but status did not change")
    ELSE IF ~Truthy(Get(updated.d, "completedTime", NONE))
    THEN Text("warning", "marked as complete, but the completion time was not set")
    ELSE Text("success", "marked as complete successfully")

CompleteTaskStart ==
    Begin([name |-> "complete_task"], "GET", EpProject, NoData, "ct_project", NoLoc)

CompleteTaskProjectChecked ==
    /\ Returned("ct_project")
    /\ IF HasError(ret)
       THEN Finish(Text("error", "Project not found"))
       ELSE Continue("GET", EpTask, NoData, "ct_task", loc)

CompleteTaskTaskChecked ==
    /\ Returned("ct_task")
    /\ IF HasError(ret)
       THEN Finish(Text("error", IF Mentions404(ret) THEN "Task not found"
                                 ELSE "Error finding task to complete"))
       ELSE IF AlreadyComplete(ret.d)
       THEN Finish(Text("info", "already marked as complete"))
       ELSE Continue("POST", EpComplete, NoData, "ct_complete", [task |-> ret.d])

CompleteTaskCompleted ==
    /\ Returned("ct_complete")
    /\ IF HasError(ret)
       THEN Finish(Text("error", "Error completing task"))
       ELSE Continue("GET", EpTask, NoData, "ct_verify", loc)

CompleteTaskVerified ==
    /\ Returned("ct_verify")
    /\ Finish(CompleteVerified(ret))

(* update_task of the server *)

ToolUpdateArgs ==
    {[title |-> t, priority |-> p, content |-> c] :
        t \in {NONE, "A", "B"}, p \in {NONE, "1", "7"}, c \in {NONE, "c"}}

\* Every supplied field counts as a change
Changes_AnySupplied(a, existing_task) ==
    {k \in {"title", "content", "priority"} : a[k] # NONE}

\* Lines 651-670: the fields whose supplied value differs from the existing one
Changes(a, existing_task) ==
    {k \in {"title", "content", "priority"} :
        a[k] # NONE /\ a[k] # Get(existing_task, k, NONE)}

\* Lines 699-709: the verification issues
UpdateVerificationIssues(a, updated_task) ==
    {k \in {"title", "priority"} : a[k] # NONE /\ Get(updated_task, k, NONE) # a[k]}

\* Lines 693-720: the outcome from the verification fetch
UpdateVerified(a, updated_task) ==
    IF HasError(updated_task)
    THEN Text("warning", "Task update reported as successful, but verification failed")
    ELSE IF UpdateVerificationIssues(a, updated_task.d) # {}
    THEN [t |-> "text", mark |-> "warning",
          what |-> "Task was updated, but some changes may not have been applied correctly",
          issues |-> UpdateVerificationIssues(a, updated_task.d), task |-> updated_task.d]
    ELSE [t |-> "text", mark |-> "success", what |-> "Task updated successfully",
          task |-> updated_task.d]

UpdateToolStart ==
    \E a \in ToolUpdateArgs :
        Begin([name |-> "update_task_tool", args |-> a], "GET", EpProject, NoData,
              "uu_project", NoLoc)

UpdateToolProjectChecked ==
    /\ Returned("uu_project")
    /\ IF HasError(ret)
       THEN Finish(Text("error", "Failed to find project"))
       ELSE Continue("GET", EpTask, NoData, "uu_task", loc)

\* Lines 624-688: the validation, the changes, and the fetch that opens the
\* client's update_task
UpdateToolTaskChecked ==
    /\ Returned("uu_task")
    /\ IF HasError(ret)
       THEN Finish(Text("error", "Failed to find task to update"))
       ELSE IF op.args.priority # NONE /\ op.args.priority \notin {"0", "1", "3", "5"}
       THEN Finish(Text("error", "Invalid priority."))
       ELSE IF Changes(op.args, ret.d) = {}
       THEN Finish(Text("info", "No changes were specified. The task remains unchanged."))
       ELSE Continue("GET", EpTask, NoData, "uu_fetch", [existing_task |-> ret.d])

\* The client's update_task, lines 510-592
UpdateToolFetched ==
    /\ Returned("uu_fetch")
    /\ IF HasError(ret)
       THEN Finish(Text("error", "Error updating task"))
       ELSE Continue("POST", EpTaskUpdate, Dict(UpdatePayload(ret.d, op.args)), "uu_write", loc)

UpdateToolWritten ==
    /\ Returned("uu_write")
    /\ IF HasError(ret)
       THEN Finish(Text("error", "Error updating task"))
       ELSE Continue("GET", EpTask, NoData, "uu_verify", loc)

UpdateToolVerified ==
    /\ Returned("uu_verify")
    /\ Finish(UpdateVerified(op.args, ret))

(* delete_project of the server *)

\* Lines 1079-1095: the outcome from the verification fetch
DeleteProjectVerified(verification) ==
    IF HasError(verification) /\ Mentions404(verification)
    THEN Text("success", "Project deleted successfully.")
    ELSE IF HasError(verification)
    THEN Text("warning", "Project deletion reported as successful, but verification failed")
    ELSE Text("error", "Project deletion reported as successful, but project still exists.")

DeleteProjectStart ==
    Begin([name |-> "delete_project"], "GET", EpProject, NoData, "dp_project", NoLoc)

DeleteProjectChecked ==
    /\ Returned("dp_project")
    /\ IF HasError(ret)
       THEN Finish(Text("error", IF Mentions404(ret) THEN "Project not found"
                                 ELSE "Error finding project to delete"))
       ELSE Continue("GET", EpProjectData, NoData, "dp_data", [project |-> ret.d])

DeleteProjectListed ==
    /\ Returned("dp_data")
    /\ LET tasks == IF HasError(ret) THEN <<>> ELSE Get(ret.d, "tasks", <<>>)
       IN Continue("DELETE", EpProject, NoData, "dp_delete",
                   [project |-> loc.project, task_count |-> Len(tasks)])

DeleteProjectDeleted ==
    /\ Returned("dp_delete")
    /\ IF HasError(ret)
       THEN Finish(Text("error", "Error deleting project"))
       ELSE Continue("GET", EpProject, NoData, "dp_verify", loc)

DeleteProjectReturn ==
    /\ Returned("dp_verify")
    /\ Finish(DeleteProjectVerified(ret))

(* create_tasks of the client *)

\* The items of a batch: a dictionary with title and project_id, one with
\* another title, one with a tag that is no string, a dictionary without one
\* of the two, or no dictionary
ItemKinds == {"ok", "ok_b", "bad_tags", "no_title", "no_project", "not_dict"}

TaskLists == UNION {[1..n -> ItemKinds] : n \in 0..MaxItems}

ItemInvalid(item) == item \in {"no_title", "no_project", "not_dict"}

\* Lines 627-639: the failure for the item at position i (from 0)
InvalidItem(item, i) ==
    Dict([error |-> Msg("Invalid task at position <i>", {}),
          position |-> i,
          error_code |-> IF item = "not_dict" THEN "INVALID_TASK_FORMAT"
                         ELSE "MISSING_REQUIRED_FIELD",
          status |-> "failed"])

InvalidInput ==
    Dict([error |-> Msg("Invalid input: tasks must be a non-empty list of task dictionaries", {}),
          error_code |-> "INVALID_INPUT",
          status |-> "failed"])

BatchProcessingError ==
    Dict([error |-> Msg("Failed to process batch task creation: <exception>", {}),
          error_code |-> "BATCH_PROCESSING_ERROR",
          status |-> "failed"])

\* A validation that looks at the first item only
FirstInvalid_FirstItemOnly(tasks) == IF ItemInvalid(tasks[1]) THEN 1 ELSE 0

\* The first invalid item of the list, 0 if there is none
FirstInvalid(tasks) ==
    IF \E i \in 1..Len(tasks) : ItemInvalid(tasks[i])
    THEN CHOOSE i \in 1..Len(tasks) :
            ItemInvalid(tasks[i]) /\ \A j \in 1..(i - 1) : ~ItemInvalid(tasks[j])
    ELSE 0

\* Lines 643-674: tag.strip('#') raises for a tag that is no string
FormatRaises(tasks) == \E i \in 1..Len(tasks) : tasks[i] = "bad_tags"

ItemTitle(item) == IF item = "ok_b" THEN "B" ELSE "A"

\* Lines 644-672 for an item with title and project_id
FormattedTask(item) == [title |-> ItemTitle(item), projectId |-> ProjectId]

\* Lines 468-484 of create_task, called with the item's fields and defaults
ItemData(item) ==
    [title |-> ItemTitle(item), projectId |-> ProjectId, priority |-> "0", isAllDay |-> "False"]

BatchSuccess(response) ==
    Dict([status |-> "success",
          message |-> Msg("Successfully created <n> tasks in batch", {}),
          tasks |-> Get(response.d, "add", <<>>)])

\* A combined result that never says success
BatchResult_AlwaysPartial(tasks, results, successful_count) ==
    Dict([status |-> "partial",
          message |-> Msg("Created <n> out of <m> tasks", {}),
          tasks |-> results,
          successful_count |-> successful_count,
          total_count |-> Len(tasks)])

\* Lines 735-741
BatchResult(tasks, results, successful_count) ==
    Dict([status |-> IF successful_count < Len(tasks) THEN "partial" ELSE "success",
          message |-> Msg("Created <n> out of <m> tasks", {}),
          tasks |-> results,
          successful_count |-> successful_count,
          total_count |-> Len(tasks)])

\* Lines 725-732: the entry for an individual create that raised
ItemRaised(i, item) ==
    Dict([error |-> Msg("Failed to create task: <exception>", {}),
          task_index |-> i,
          task_data |-> item,
          status |-> "failed"])

\* A tagging that counts the items from 1
Tagged_FromOne(result, i, item) ==
    IF MembershipRaises(result)
    THEN ItemRaised(i + 1, item)
    ELSE IF HasError(result)
    THEN Dict(Put(Put(result.d, "task_index", i + 1), "task_data", item))
    ELSE result

\* Lines 717-732: the result of one create, tagged if it is an error
Tagged(result, i, item) ==
    IF MembershipRaises(result)
    THEN ItemRaised(i, item)
    ELSE IF HasError(result)
    THEN Dict(Put(Put(result.d, "task_index", i), "task_data", item))
    ELSE result

\* A count that takes every result without an error key for a success
ItemSucceeded_CountsRaised(result) == ~HasError(result)

\* Line 722: the individual create counts as successful
ItemSucceeded(result) == ~MembershipRaises(result) /\ ~HasError(result)

\* The bulk response counts as a success (line 683)
BulkSucceeded(response) ==
    response.t = "dict" /\ ~HasError(response) /\ Get(response.d, "status", NONE) # "failed"

CreateTasksStart ==
    \E tasks \in TaskLists :
        LET operation == [name |-> "create_tasks", tasks |-> tasks] IN
        IF Len(tasks) = 0
        THEN Reject(operation, InvalidInput)
        ELSE IF FirstInvalid(tasks) # 0
        THEN Reject(operation, InvalidItem(tasks[FirstInvalid(tasks)], FirstInvalid(tasks) - 1))
        ELSE IF FormatRaises(tasks)
        THEN Reject(operation, BatchProcessingError)
        ELSE Begin(operation, "POST", EpBatch,
                   Dict([add |-> [i \in 1..Len(tasks) |-> FormattedTask(tasks[i])]]),
                   "bt_bulk", NoLoc)

\* A fallback that gives up at the first individual create that fails
CreateNext_AbortsOnError(results, successful_count) ==
    LET i == Len(results) + 1 IN
    IF i <= Len(op.tasks) /\ (results = <<>> \/ ~HasError(results[Len(results)]))
    THEN Continue("POST", EpTaskCreate, Dict(ItemData(op.tasks[i])), "bt_item",
                  [results |-> results, successful_count |-> successful_count])
    ELSE Finish(BatchResult(op.tasks, results, successful_count))

\* Lines 698-741: the next individual create, or the combined result
CreateNext(results, successful_count) ==
    LET i == Len(results) + 1 IN
    IF i <= Len(op.tasks)
    THEN Continue("POST", EpTaskCreate, Dict(ItemData(op.tasks[i])), "bt_item",
                  [results |-> results, successful_count |-> successful_count])
    ELSE Finish(BatchResult(op.tasks, results, successful_count))

CreateTasksBulkReturned ==
    /\ Returned("bt_bulk")
    /\ IF BulkSucceeded(ret)
       THEN Finish(BatchSuccess(ret))
       ELSE CreateNext(<<>>, 0)

CreateTasksItemReturned ==
    /\ Returned("bt_item")
    /\ LET i == Len(loc.results) + 1 IN
        CreateNext(Append(loc.results, Tagged(ret, i - 1, op.tasks[i])),
                   IF ItemSucceeded(ret) THEN loc.successful_count + 1
                   ELSE loc.successful_count)

(* create_task of the server *)

ValidPriorities == {"0", "1", "3", "5"}

CreateArgs ==
    {[title |-> t, priority |-> p, content |-> c] :
        t \in {"A", ""}, p \in {"0", "1", "7"}, c \in {NONE, "c"}}

\* Lines 468-484 of the client's create_task (no dates, no repeat flag, no tags)
CreateData(a) ==
    LET d == [title |-> a.title, projectId |-> ProjectId, priority |-> a.priority,
              isAllDay |-> "False"]
    IN IF Truthy(a.content) THEN Put(d, "content", a.content) ELSE d

\* A verification that does not compare the priority
VerificationIssues_NoPriority(a, verification) ==
    (IF Get(verification, "title", NONE) # a.title THEN {"title"} ELSE {})
        \cup (IF Truthy(a.content) /\ Get(verification, "content", NONE) # a.content
              THEN {"content"} ELSE {})

\* Lines 557-575: the verification issues
VerificationIssues(a, verification) ==
    (IF Get(verification, "title", NONE) # a.title THEN {"title"} ELSE {})
        \cup (IF Truthy(a.content) /\ Get(verification, "content", NONE) # a.content
              THEN {"content"} ELSE {})
        \cup (IF a.priority # Get(verification, "priority", NONE) THEN {"priority"} ELSE {})

\* Lines 551-583: the outcome from the verification fetch
CreateVerified(a, verification) ==
    IF HasError(verification)
    THEN Text("warning", "Task creation reported as successful, but verification failed")
    ELSE IF VerificationIssues(a, verification.d) # {}
    THEN [t |-> "text", mark |-> "warning",
          what |-> "Task created, but some fields may not have been set correctly",
          issues |-> VerificationIssues(a, verification.d), task |-> verification.d]
    ELSE [t |-> "text", mark |-> "success", what |-> "Task created successfully",
          task |-> verification.d]

CreateTaskStart ==
    \E a \in CreateArgs :
        LET operation == [name |-> "create_task", args |-> a] IN
        IF ~Truthy(a.title)
        THEN Reject(operation, Text("error", "Task title cannot be empty."))
        ELSE IF a.priority \notin ValidPriorities
        THEN Reject(operation, Text("error", "Invalid priority."))
        ELSE Begin(operation, "GET", EpProject, NoData, "cr_project", NoLoc)

CreateTaskProjectChecked ==
    /\ Returned("cr_project")
    /\ IF HasError(ret)
       THEN Finish(Text("error", "Project not found."))
       ELSE Continue("POST", EpTaskCreate, Dict(CreateData(op.args)), "cr_create", loc)

CreateTaskCreated ==
    /\ Returned("cr_create")
    /\ IF HasError(ret)
       THEN Finish(Text("error", "Error creating task"))
       ELSE IF ~Truthy(Get(ret.d, "id", ""))
       THEN Finish(Text("warning", "Task was created, but no task ID was returned."))
       ELSE Continue("GET", EpCreatedTask, NoData, "cr_verify", [task |-> ret.d])

CreateTaskVerified ==
    /\ Returned("cr_verify")
    /\ Finish(CreateVerified(op.args, ret))

(* create_project of the server *)

ValidViewModes == {"list", "kanban", "timeline"}

DefaultColor == "#F18181"

CreateProjectArgs ==
    {[name |-> n, color |-> DefaultColor, view_mode |-> v] :
        n \in {"Q", "P", ""}, v \in {"list", "board"}}

\* Lines 401-409 of the client's create_project
CreateProjectData(a) ==
    [name |-> a.name, color |-> a.color, viewMode |-> a.view_mode, kind |-> "TASK"]

\* Lines 960-966: a project of the list has the requested name
NameTaken(existing_projects, name) ==
    \E i \in 1..Len(existing_projects) : Get(existing_projects[i], "name", NONE) = name

\* Lines 994-1004: the verification issues
ProjectVerificationIssues(a, verification) ==
    (IF Get(verification, "name", NONE) # a.name THEN {"name"} ELSE {})
        \cup (IF Get(verification, "color", NONE) # a.color THEN {"color"} ELSE {})
        \cup (IF Get(verification, "viewMode", NONE) # a.view_mode THEN {"viewMode"} ELSE {})

\* A tool for which a failed verification fetch is a failed creation
CreateProjectVerified_Fails(a, verification) ==
    IF HasError(verification)
    THEN Text("error", "Error creating project")
    ELSE [t |-> "text", mark |-> "success", what |-> "Project created successfully",
          project |-> verification.d]

\* Lines 987-1011: the outcome from the verification fetch
CreateProjectVerified(a, verification) ==
    IF HasError(verification)
    THEN Text("warning", "Project creation reported as successful, but verification failed")
    ELSE IF ProjectVerificationIssues(a, verification.d) # {}
    THEN [t |-> "text", mark |-> "warning",
          what |-> "Project created, but some properties may not have been set correctly",
          issues |-> ProjectVerificationIssues(a, verification.d), project |-> verification.d]
    ELSE [t |-> "text", mark |-> "success", what |-> "Project created successfully",
          project |-> verification.d]

CreateProjectStart ==
    \E a \in CreateProjectArgs :
        LET operation == [name |-> "create_project", args |-> a] IN
        IF ~Truthy(a.name)
        THEN Reject(operation, Text("error", "Project name cannot be empty."))
        ELSE IF a.view_mode \notin ValidViewModes
        THEN Reject(operation, Text("error", "Invalid view_mode."))
        ELSE Begin(operation, "GET", EpProjects, NoData, "cp_list", NoLoc)

CreateProjectListed ==
    /\ Returned("cp_list")
    /\ IF ret.t = "list" /\ NameTaken(ret.l, op.args.name)
       THEN Finish(Text("warning", "A project with the name already exists"))
       ELSE IF ret.t = "dict" /\ ~HasError(ret)
       THEN Finish(Text("error", "Error creating project"))
       ELSE Continue("POST", EpProjects, Dict(CreateProjectData(op.args)), "cp_create", loc)

CreateProjectCreated ==
    /\ Returned("cp_create")
    /\ IF HasError(ret)
       THEN Finish(Text("error", "Error creating project"))
       ELSE IF ~Truthy(Get(ret.d, "id", ""))
       THEN Finish(Text("warning", "Project was created, but no project ID was returned."))
       ELSE Continue("GET", EpCreatedProject, NoData, "cp_verify", [project |-> ret.d])

CreateProjectReturn ==
    /\ Returned("cp_verify")
    /\ Finish(CreateProjectVerified(op.args, ret))

----------------------------------------------------------------------------
(* The system *)

FullClient ==
    [client_id |-> "id", client_secret |-> "secret", access_token |-> "a1",
     refresh_token |-> "r1", auth |-> "a1"]

\* Clients as __init__ leaves them: the access token is set, the rest may be
\* missing
InitClients ==
    {FullClient, [FullClient EXCEPT !.refresh_token = NONE],
     [FullClient EXCEPT !.client_id = NONE], [FullClient EXCEPT !.client_secret = NONE]}

TaskA == [id |-> TaskId, projectId |-> ProjectId, title |-> "A", priority |-> "0",
          status |-> "0", etag |-> "e1"]

\* The same task as the upstream sends it without a status field
TaskNoStatus == Drop(TaskA, {"status"})

TaskStatus1 == [TaskA EXCEPT !.status = "1"]

TaskStatus2 == Put([TaskA EXCEPT !.status = "2"], "completedTime", "ts")

Upstream(project, tasks, statuses, exceptions, auth, alters) ==
    [project |-> project, tasks |-> tasks, created |-> {},
     statuses |-> statuses, exceptions |-> exceptions, auth |-> auth, alters |-> alters]

InitRest ==
    /\ env = [access_token |-> cl.access_token, refresh_token |-> cl.refresh_token]
    /\ op = NoOp
    /\ pc = "idle"
    /\ loc = NoLoc
    /\ tp = Idle
    /\ ret = Dict(EmptyDict)
    /\ cnt = ZeroCnt
    /\ opc = ZeroOpc
    /\ out = Dict(EmptyDict)
    /\ loop = NoTasks

(* The transport alone, against an upstream that shows every fault *)

Init ==
    /\ cl \in InitClients
    /\ up \in {Upstream(p, {}, FaultStatuses, FaultExceptions, "full", FALSE) : p \in BOOLEAN}
    /\ InitRest

Next ==
    \/ Send
    \/ Refresh
    \/ Resend
    \/ GetProjectStart
    \/ GetProjectReturn

Spec == Init /\ [][Next]_vars

(* The reads, against an upstream whose task has a status field or none *)

ReadStatuses == {200, 401, 503}

InitRead ==
    /\ cl = FullClient
    /\ up \in {Upstream(TRUE, ts, ReadStatuses, {}, "plain", FALSE) :
                    ts \in {{TaskA}, {TaskNoStatus}}}
    /\ InitRest

NextRead ==
    \/ Send
    \/ Refresh
    \/ Resend
    \/ GetProjectsStart
    \/ GetProjectsReturn
    \/ GetTaskStart
    \/ GetTaskReturn

SpecRead == InitRead /\ [][NextRead]_vars

(* The operations, each against an upstream that shows one fault of each
   kind the operations tell apart *)

OpStatuses == {400, 401, 429, 500, 503}

OpExceptions == {"timeout"}

InitOps(projects, tasks, alters) ==
    /\ cl = FullClient
    /\ up \in {Upstream(p, ts, OpStatuses, OpExceptions, "plain", alters) :
                    p \in projects, ts \in tasks}
    /\ InitRest

InitUpdate == InitOps({TRUE}, {{}, {TaskA}, {TaskNoStatus}}, FALSE)

NextUpdate ==
    \/ Send
    \/ Refresh
    \/ Resend
    \/ UpdateTaskStart
    \/ UpdateTaskFetched
    \/ UpdateTaskWritten

SpecUpdate == InitUpdate /\ [][NextUpdate]_vars

InitUpdateTool == InitOps(BOOLEAN, {{}, {TaskA}}, TRUE)

NextUpdateTool ==
    \/ Send
    \/ Refresh
    \/ Resend
    \/ UpdateToolStart
    \/ UpdateToolProjectChecked
    \/ UpdateToolTaskChecked
    \/ UpdateToolFetched
    \/ UpdateToolWritten
    \/ UpdateToolVerified

SpecUpdateTool == InitUpdateTool /\ [][NextUpdateTool]_vars

InitDelete == InitOps(BOOLEAN, {{}, {TaskA}}, FALSE)

NextDelete ==
    \/ Send
    \/ Refresh
    \/ Resend
    \/ DeleteTaskStart
    \/ DeleteTaskProjectChecked
    \/ DeleteTaskTaskChecked
    \/ DeleteTaskDeleted
    \/ DeleteTaskVerified

SpecDelete == InitDelete /\ [][NextDelete]_vars

\* The upstream of the tool also answers 200 with a body that is no JSON
\* object, or with none
InitDeleteTool ==
    /\ cl = FullClient
    /\ up \in {Upstream(p, ts, OpStatuses \cup {200}, OpExceptions, "plain", FALSE) :
                    p \in BOOLEAN, ts \in {{}, {TaskA}}}
    /\ InitRest

NextDeleteTool ==
    \/ Send
    \/ Refresh
    \/ Resend
    \/ DeleteToolStart
    \/ DeleteToolProjectChecked
    \/ DeleteToolChecked
    \/ DeleteTaskProjectChecked
    \/ DeleteTaskTaskChecked
    \/ DeleteTaskDeleted
    \/ DeleteTaskVerified

SpecDeleteTool == InitDeleteTool /\ [][NextDeleteTool]_vars

\* The code is synchronous: a step that can be taken is taken
SpecDeleteFair == SpecDelete /\ WF_vars(NextDelete)

InitDeleteProject == InitOps(BOOLEAN, {{}, {TaskA}}, FALSE)

NextDeleteProject ==
    \/ Send
    \/ Refresh
    \/ Resend
    \/ DeleteProjectStart
    \/ DeleteProjectChecked
    \/ DeleteProjectListed
    \/ DeleteProjectDeleted
    \/ DeleteProjectReturn

SpecDeleteProject == InitDeleteProject /\ [][NextDeleteProject]_vars

InitComplete ==
    InitOps(BOOLEAN, {{}, {TaskA}, {TaskNoStatus}, {TaskStatus1}, {TaskStatus2}}, FALSE)

NextComplete ==
    \/ Send
    \/ Refresh
    \/ Resend
    \/ CompleteTaskStart
    \/ CompleteTaskProjectChecked
    \/ CompleteTaskTaskChecked
    \/ CompleteTaskCompleted
    \/ CompleteTaskVerified

SpecComplete == InitComplete /\ [][NextComplete]_vars

(* The server: invocations of complete_task as the MCP client sends them *)

InitServer == InitOps({TRUE}, {{TaskA}}, FALSE)

NextServer ==
    \/ Arrive
    \/ Dispatch
    \/ Send
    \/ Refresh
    \/ Resend
    \/ Dispatched /\ CompleteTaskStart
    \/ CompleteTaskProjectChecked
    \/ CompleteTaskTaskChecked
    \/ CompleteTaskCompleted
    \/ CompleteTaskVerified

SpecServer == InitServer /\ [][NextServer]_vars

\* The upstream of a batch refuses a request or its token, fails for a while,
\* or answers 200 with a body that is no JSON object
BatchStatuses == {200, 400, 401, 503}

InitBatch ==
    /\ cl = FullClient
    /\ up = Upstream(TRUE, {}, BatchStatuses, {}, "plain", FALSE)
    /\ InitRest

NextBatch ==
    \/ Send
    \/ Refresh
    \/ Resend
    \/ CreateTasksStart
    \/ CreateTasksBulkReturned
    \/ CreateTasksItemReturned

SpecBatch == InitBatch /\ [][NextBatch]_vars

InitCreate == InitOps(BOOLEAN, {{}}, TRUE)

NextCreate ==
    \/ Send
    \/ Refresh
    \/ Resend
    \/ CreateTaskStart
    \/ CreateTaskProjectChecked
    \/ CreateTaskCreated
    \/ CreateTaskVerified

SpecCreate == InitCreate /\ [][NextCreate]_vars

(* Creation of tasks and of projects *)

NextCreation ==
    \/ NextCreate
    \/ CreateProjectStart
    \/ CreateProjectListed
    \/ CreateProjectCreated
    \/ CreateProjectReturn

SpecCreation == InitCreate /\ [][NextCreation]_vars

----------------------------------------------------------------------------
(* Transport: retries *)

CallDone == tp.phase = "done"

\* C1 as stated: a call that receives a 502, 503 or 504 issues at most 2
\* requests in total.
C1_AtMostTwoRequests == cnt.sawTransient => cnt.req <= 2

\* C1: a call entered with retry_on_error true that receives a 502, 503 or
\* 504 makes one retry only, the retry runs with retry_on_error false, and the
\* call issues at most 2 requests when none of them is answered with 401 (at
\* most 4 otherwise).
C1_OneTransientRetry ==
    /\ cnt.sleep <= 1
    /\ (tp.phase # "idle" => (cnt.sleep = 1 <=> ~tp.retry))
    /\ (cnt.sawTransient /\ ~cnt.saw401 => cnt.req <= 2)
    /\ cnt.req <= 4

C1_Witness == CallDone /\ cnt.sleep = 1 /\ ~cnt.saw401 /\ cnt.req = 2 /\ ~tp.retry

\* C2 as stated: a call whose request receives a 401 and whose refresh
\* succeeds issues at most 2 requests in total.
C2_AtMostTwoRequests == cnt.refreshOk >= 1 => cnt.req <= 2

\* C2: after a 401 and a successful refresh, the invocation re-issues the same
\* request exactly once, with the refreshed token in the Authorization header;
\* it issues at most 2 requests itself, and the call at most 2 unless a
\* transient 5xx is retried (at most 4 then).
C2_ReissuedOnceWithNewToken ==
    /\ cnt.frameReq <= 2
    /\ (tp.phase \in {"refresh", "resend"} => cnt.frameReq = 1)
    /\ (cnt.lastWhy = "resend" =>
            /\ cnt.lastAuth = cnt.issued
            /\ cnt.lastM = cnt.firstM /\ cnt.lastEp = cnt.firstEp
            /\ (cnt.frameReq = 2 \/ (cnt.frameReq = 0 /\ tp.phase = "send")))
    /\ (CallDone /\ cnt.refreshOk >= 1 /\ cnt.sleep = 0 => cnt.req = 2)
    /\ cnt.req <= 4

C2_Witness ==
    CallDone /\ cnt.refreshOk = 1 /\ cnt.lastWhy = "resend" /\ cnt.req = 2
        /\ cnt.lastAuth = "a2" /\ ~HasError(ret)

\* C3 as stated: a call whose request receives a 401 and whose refresh fails
\* issues exactly 1 request and returns AUTH_FAILED, not marked transient.
C3_ExactlyOneRequest ==
    CallDone /\ cnt.refreshFailed >= 1 =>
        /\ cnt.req = 1
        /\ ret.d.error_code = "AUTH_FAILED"
        /\ "is_transient" \notin DOMAIN ret.d

\* C3: when the refresh after a 401 fails, the request answered with 401 is
\* the last one of the call, the result is AUTH_FAILED, not marked transient,
\* and nothing is retried; that request is the only one of its invocation, and
\* the only one of the call unless a transient 5xx was retried before it.
C3_AuthFailedNoRetry ==
    /\ cnt.refreshFailed <= 1
    /\ (cnt.refreshFailed = 1 =>
            /\ CallDone
            /\ HasError(ret)
            /\ ret.d.error_code = "AUTH_FAILED"
            /\ ret.d.status = "failed"
            /\ "is_transient" \notin DOMAIN ret.d
            /\ cnt.frameReq = 1
            /\ (cnt.sleep = 0 => cnt.req = 1))

C3_Witness == CallDone /\ cnt.refreshFailed = 1 /\ cnt.req = 1 /\ cnt.tokenReq = 1

----------------------------------------------------------------------------
(* update_task: preservation *)

\* C4 as stated: update_task with no field supplied writes a payload with no
\* field or value the upstream task did not have, and the task the upstream
\* holds afterwards equals the task before in every field that is not
\* server-managed.
C4_NoFieldsPreserves ==
    op.name = "update_task" /\ op.args = NoUpdateArgs /\ pc = "ut_write" =>
        \A old \in opc.before :
            /\ \A k \in DOMAIN loc.data : k \in DOMAIN old /\ loc.data[k] = old[k]
            /\ \A new \in up.tasks : Drop(new, ServerManaged) = Drop(old, ServerManaged)

----------------------------------------------------------------------------
(* delete_task: the existence pre-checks *)

\* C5 as stated: when an existence pre-check GET of delete_task is answered
\* with 404, delete_task returns a failure whose error_code says not found
\* (NOT_FOUND, or the operation's PROJECT_NOT_FOUND or TASK_NOT_FOUND) and has
\* issued no DELETE request.
C5_PrecheckNotFound ==
    [][(/\ op.name = "delete_task"
        /\ pc \in {"dt_project", "dt_task"}
        /\ tp.phase = "done"
        /\ HasError(ret)
        /\ Get(ret.d, "http_status", 0) = 404)
          => (/\ pc' = "idle"
              /\ HasError(out')
              /\ out'.d.error_code \in {"NOT_FOUND", "PROJECT_NOT_FOUND", "TASK_NOT_FOUND"}
              /\ opc'.deletes = 0)]_vars

----------------------------------------------------------------------------
(* complete_task: a task that is complete already *)

\* C6 as stated: complete_task issues no POST .../complete for a task whose
\* fetched status indicates completed, be it the status the tool's status_map
\* calls Completed or the status the tool compares with.
C6_NoWriteWhenCompleted ==
    op.name = "complete_task" /\ pc = "ct_complete" =>
        /\ StatusMap(Get(loc.task, "status", "0")) # "Completed"
        /\ Get(loc.task, "status", "0") # CompletedStatus

----------------------------------------------------------------------------
(* create_tasks *)

\* The combined result of the individual creates has been returned
FallbackReturned ==
    op.name = "create_tasks" /\ pc = "idle" /\ HasKey(out, "successful_count")

AllCreated ==
    /\ Len(out.d.tasks) = Len(op.tasks)
    /\ \A i \in 1..Len(out.d.tasks) : ~HasError(out.d.tasks[i])

PrevalidationFails(tasks) == tasks = <<>> \/ \E i \in 1..Len(tasks) : ItemInvalid(tasks[i])

\* C7: a batch with an item that is no dictionary, or lacks title or
\* project_id, is returned as failed with the position (from 0) of the first
\* such item, whatever the items before it, and no request is issued.
C7_InvalidItemRejected ==
    op.name = "create_tasks" /\ (\E i \in 1..Len(op.tasks) : ItemInvalid(op.tasks[i])) =>
        /\ pc = "idle" /\ tp = Idle
        /\ opc.calls = 0
        /\ out.d.status = "failed"
        /\ \E i \in 1..Len(op.tasks) :
                /\ ItemInvalid(op.tasks[i])
                /\ \A j \in 1..(i - 1) : ~ItemInvalid(op.tasks[j])
                /\ out.d.position = i - 1

C7_Witness ==
    /\ op.name = "create_tasks" /\ pc = "idle"
    /\ Len(op.tasks) = 2 /\ op.tasks[1] = "ok" /\ op.tasks[2] = "no_title"
    /\ out.d.status = "failed" /\ out.d.position = 1 /\ opc.calls = 0

\* C8: when the bulk call did not succeed and every individual create
\* succeeded, the result has status success and successful_count equal to
\* total_count, the number of items.
C8_FallbackAllSucceed ==
    FallbackReturned /\ AllCreated =>
        /\ out.d.status = "success"
        /\ out.d.successful_count = out.d.total_count
        /\ out.d.total_count = Len(op.tasks)
        /\ opc.calls = 1 + Len(op.tasks)

C8_Witness ==
    /\ FallbackReturned /\ AllCreated
    /\ Len(op.tasks) = MaxItems
    /\ out.d.status = "success" /\ out.d.successful_count = MaxItems

----------------------------------------------------------------------------
(* create_task: the read-back *)

\* The requested fields whose read-back value differs from the requested one
Diverging(a, task) ==
    {k \in {"title", "priority", "content"} : a[k] # NONE /\ Get(task, k, NONE) # a[k]}

\* C10: after a create that succeeded and a read-back that returned the task,
\* the outcome is a plain success if no requested field diverges, and
\* otherwise a warning, no failure, that lists each diverging field.
C10_DivergenceReported ==
    op.name = "create_task" /\ pc = "idle" /\ "task" \in DOMAIN out =>
        /\ opc.calls = 3
        /\ IF Diverging(op.args, out.task) = {}
           THEN out.mark = "success" /\ "issues" \notin DOMAIN out
           ELSE out.mark = "warning" /\ out.issues = Diverging(op.args, out.task)

C10_Witness ==
    /\ op.name = "create_task" /\ pc = "idle" /\ "task" \in DOMAIN out
    /\ op.args.title = "A" /\ op.args.priority = "1"
    /\ out.task.priority = "3"
    /\ out.mark = "warning" /\ out.issues = {"priority"}

----------------------------------------------------------------------------
(* Transport: results *)

ErrorCodes ==
    {"AUTH_FAILED", "NOT_FOUND", "RATE_LIMITED", "SERVER_ERROR", "BAD_REQUEST",
     "FORBIDDEN", "METHOD_NOT_ALLOWED", "CONFLICT", "PAYLOAD_TOO_LARGE",
     "UNSUPPORTED_MEDIA_TYPE", "VALIDATION_ERROR",
     "CLIENT_ERROR_401", "CLIENT_ERROR_<status>", "INVALID_RESPONSE_FORMAT",
     "TIMEOUT", "CONNECTION_ERROR", "REQUEST_FAILED", "UNEXPECTED_ERROR"}

\* C11: whatever the status, the network failure or the refresh outcome,
\* _make_request returns a value, a parsed body or a dictionary with an error
\* and an error_code, and no exception leaves it.
C11_NeverRaises ==
    CallDone =>
        /\ ret.t \in {"dict", "list", "null"}
        /\ (HasError(ret) =>
                /\ ret.d.error_code \in ErrorCodes
                /\ ret.d.status \in {"failed", "warning"})

\* An exception raised while the refreshed tokens are saved has been caught
C11_Witness ==
    /\ CallDone /\ cnt.refresh = 1 /\ cnt.refreshOk = 0 /\ cnt.refreshFailed = 0
    /\ HasError(ret) /\ ret.d.error_code = "UNEXPECTED_ERROR"

----------------------------------------------------------------------------
(* delete_task: the verification *)

\* C12 as stated: when the DELETE returned no error and the verification fetch
\* is answered with 404, delete_task reports the confirmed success: status
\* success, no warning and nothing left to verify.
C12_VerifiedSuccess ==
    [][(/\ op.name = "delete_task"
        /\ pc = "dt_verify"
        /\ tp.phase = "done"
        /\ HasError(ret)
        /\ Get(ret.d, "http_status", 0) = 404)
          => (/\ pc' = "idle"
              /\ out'.d.status = "success"
              /\ ~HasKey(out', "requires_verification")
              /\ ~HasKey(out', "warning_code"))]_vars

----------------------------------------------------------------------------
(* Deletion: the resource is still there *)

\* C13 as stated, for projects: when the DELETE returned no error and the
\* verification fetch still returns the project, delete_project reports a
\* success and never an error.
C13_StillThereIsNoError ==
    [][(/\ op.name = "delete_project"
        /\ pc = "dp_verify"
        /\ tp.phase = "done"
        /\ ~HasError(ret))
          => (pc' = "idle" /\ out'.mark \in {"success", "info"})]_vars

----------------------------------------------------------------------------
(* Creation: the verification fetch fails *)

CreateOps == {"create_task", "create_project"}

\* C14: when the create succeeded and the verification fetch fails, the tool
\* returns the warning that the creation is unverified, no failure; it issues
\* no further request, no DELETE at all, and what the upstream created stays.
C14_UnverifiedNotRolledBack ==
    [][(/\ op.name \in CreateOps
        /\ pc \in {"cr_verify", "cp_verify"}
        /\ tp.phase = "done"
        /\ HasError(ret))
          => (/\ pc' = "idle"
              /\ out'.mark = "warning"
              /\ out'.what \in {"Task creation reported as successful, but verification failed",
                                "Project creation reported as successful, but verification failed"}
              /\ opc' = opc /\ opc.deletes = 0 /\ opc.posts = 1
              /\ up' = up /\ up.created # {})]_vars

C14_Witness ==
    /\ op.name = "create_project" /\ pc = "idle"
    /\ out.t = "text" /\ out.mark = "warning"
    /\ out.what = "Project creation reported as successful, but verification failed"
    /\ opc.calls = 3 /\ opc.deletes = 0 /\ up.created # {}

----------------------------------------------------------------------------
(* complete_task: the verification *)

\* The re-fetched task shows the completion
ShowsCompletion(updated) ==
    /\ ~HasError(updated)
    /\ Get(updated.d, "status", "0") = CompletedStatus
    /\ Get(updated.d, "completedTime", NONE) \notin {NONE, ""}

----------------------------------------------------------------------------
(* update_task of the server: the verification *)

\* The supplied fields whose re-fetched value differs from the supplied one
Mismatches(a, task) ==
    {k \in {"title", "content", "priority"} : a[k] # NONE /\ Get(task, k, NONE) # a[k]}

\* C16 as stated: after the write the tool fetches the task again; every
\* supplied field whose re-fetched value differs from the supplied one is
\* reported, and the outcome is no failure.
C16_EveryMismatchReported ==
    [][(/\ op.name = "update_task_tool"
        /\ pc = "uu_verify"
        /\ tp.phase = "done"
        /\ ~HasError(ret))
          => (/\ pc' = "idle"
              /\ out'.mark # "error"
              /\ (Mismatches(op.args, ret.d) # {} =>
                    /\ out'.mark = "warning"
                    /\ Mismatches(op.args, ret.d) \subseteq out'.issues))]_vars

----------------------------------------------------------------------------
(* update_task: the payload *)

Supplied(a) == {k \in {"title", "priority", "content"} : a[k] # NONE}

\* C17 as stated: in the payload update_task writes, every supplied field has
\* the supplied value, every other field is a field of the upstream task with
\* the value it has there, every field of the upstream task that is not
\* server-managed is present, and no server-managed field is present.
C17_PayloadFields ==
    op.name = "update_task" /\ pc = "ut_write" =>
        \A old \in opc.before :
            /\ \A k \in Supplied(op.args) : k \in DOMAIN loc.data /\ loc.data[k] = op.args[k]
            /\ \A k \in DOMAIN loc.data \ Supplied(op.args) :
                    k \in DOMAIN old /\ loc.data[k] = old[k]
            /\ (DOMAIN old \ ServerManaged) \subseteq DOMAIN loc.data
            /\ DOMAIN loc.data \cap ServerManaged = {}

----------------------------------------------------------------------------
(* The 429 *)

\* The call has ended with the failure of the 429: RATE_LIMITED, not marked
\* transient, with the Retry-After of the response
RateLimitReturned ==
    /\ CallDone
    /\ IsRateLimited(ret)
    /\ "is_transient" \notin DOMAIN ret.d
    /\ ret.d.retry_after = cnt.rate

\* delete_task re-runs itself, at once and with its budget decremented
DeleteRerun ==
    /\ op.name = "delete_task" /\ pc = "dt_delete" /\ loc.retry_count > 0
    /\ pc' = "dt_project" /\ loc'.retry_count = loc.retry_count - 1
    /\ cnt'.sleep = 0

\* The request the operation has under way is one that was answered 429
\* earlier in the same operation
Reissued == tp.phase # "idle" /\ <<tp.m, tp.ep>> \in opc.limited

\* C18 as stated: a request answered 429 is not issued again by the operation
\* itself; whether to retry is the caller's decision.
C18_RetryLeftToCaller == ~Reissued

\* C18: a call that receives a 429 ends there, without a wait and without
\* another request, and returns RATE_LIMITED, not transient, with the
\* Retry-After value; the operation then returns to its caller, except
\* delete_task, which re-runs itself at once when the 429 answered its DELETE
\* and its retry budget is not used up.
C18_NoWaitNoReissueInCall ==
    /\ [](cnt.rate # NONE => RateLimitReturned)
    /\ [](Reissued => /\ op.name = "delete_task" /\ tp.m = "DELETE"
                       /\ loc.retry_count < op.retry_count /\ opc.deletes = 2)
    /\ [][CallDone /\ IsRateLimited(ret) => pc' = "idle" \/ DeleteRerun]_vars

C18_Witness ==
    /\ RateLimitReturned /\ cnt.rate = "5" /\ cnt.sleep = 1 /\ cnt.refreshOk = 1
    /\ pc = "dt_delete" /\ loc.retry_count = 0 /\ opc.deletes = 2

----------------------------------------------------------------------------
(* The bearer token *)

\* C19: every request issued to the upstream carries a non-empty bearer
\* access token, whatever refreshes came before it.
C19_BearerNonEmpty == cnt.req > 0 => Truthy(cnt.lastAuth)

----------------------------------------------------------------------------
(* The refresh without credentials *)

\* A credential the refresh needs is missing
CannotRefresh ==
    ~Truthy(cl.refresh_token) \/ ~Truthy(cl.client_id) \/ ~Truthy(cl.client_secret)

\* C20: when refresh_token, client_id or client_secret is missing, the refresh
\* returns False without a request to the token endpoint, and the credentials
\* of the client and of the file stay as they were.
C20_RefreshRefused ==
    [][tp.phase = "refresh" /\ CannotRefresh =>
            /\ cnt'.refresh = cnt.refresh + 1
            /\ cnt'.refreshFailed = cnt.refreshFailed + 1
            /\ cnt'.tokenReq = cnt.tokenReq
            /\ cl' = cl /\ env' = env]_vars

C20_Witness ==
    /\ CallDone /\ cnt.refresh = 1 /\ cnt.refreshFailed = 1 /\ cnt.tokenReq = 0
    /\ cl.client_secret = NONE /\ cl.refresh_token # NONE /\ cl.client_id # NONE

----------------------------------------------------------------------------
(* Bounded retries *)

\* C21 as stated: a transport call makes at most one token refresh and at
\* most one transient retry, and a delete_task at most retry_count delete
\* retries.
C21_OneRefreshPerCall ==
    /\ cnt.refresh <= 1
    /\ cnt.sleep <= 1
    /\ (op.name = "delete_task" => opc.deletes <= op.retry_count + 1)

\* The retries of a transport call and of a delete_task, counted
RetriesBounded ==
    /\ cnt.frameReq <= 2
    /\ cnt.sleep <= 1
    /\ cnt.refresh <= 2
    /\ cnt.req <= 4
    /\ (op.name = "delete_task" =>
            /\ opc.deletes <= op.retry_count + 1
            /\ opc.calls <= 3 * op.retry_count + 4
            /\ (pc # "idle" => loc.retry_count \in 0..op.retry_count))

\* C21: every operation terminates after a bounded number of upstream calls:
\* each invocation of _make_request makes at most one token refresh and
\* re-issue, a transport call makes at most one transient retry, hence at
\* most two refreshes and four requests, and a delete_task makes at most
\* retry_count delete retries.
C21_BoundedRetries ==
    /\ []RetriesBounded
    /\ (pc # "idle" ~> pc = "idle")

C21_Witness ==
    /\ op.name = "delete_task" /\ pc = "dt_delete" /\ CallDone
    /\ opc.deletes = 2 /\ opc.calls = 6
    /\ cnt.refresh = 2 /\ cnt.sleep = 1 /\ cnt.req = 4

----------------------------------------------------------------------------
(* One operation at a time *)

\* The invocations whose body has been entered and has not returned
Begun == {i \in Tasks : loop[i] \in {"dispatched", "running", "suspended"}}

\* C22: a tool invocation runs to its return before another is started: at
\* most one invocation is under way, so at most one request is on the wire,
\* and a token refresh is a step of the one running invocation.
C22_OneOperationAtATime ==
    /\ Cardinality(Begun) <= 1
    /\ (pc # "idle" => \E i \in Tasks : Begun = {i} /\ loop[i] = "running")
    /\ (tp.phase \in {"send", "refresh", "resend"} => pc # "idle")

C22_Witness ==
    /\ \E i, j \in Tasks : loop[i] = "running" /\ loop[j] = "ready"
    /\ tp.phase = "resend" /\ pc = "ct_complete"

----------------------------------------------------------------------------
(* update_task: the failed fetch *)

\* C23: when the fetch of the current task returns an error, update_task
\* returns that error and makes no further call, so no POST /task/{id}.
C23_FailsFast ==
    [][op.name = "update_task" /\ Returned("ut_fetch") /\ HasError(ret) =>
            /\ pc' = "idle" /\ tp' = Idle
            /\ out' = ret
            /\ opc' = opc /\ opc.posts = 0
            /\ up' = up]_vars

C23_Witness ==
    /\ op.name = "update_task" /\ pc = "idle"
    /\ HasError(out) /\ out.d.error_code = "NOT_FOUND"
    /\ opc.calls = 1 /\ opc.posts = 0

----------------------------------------------------------------------------
(* delete_task: the retry *)

\* The error text holds one of the substrings the claim lists
MatchesRecoverable(r) ==
    r.d.error.has \cap {"timeout", "rate limit", "server error", "500", "503"} # {}

\* C24: after a DELETE that returned an error, delete_task runs itself again,
\* with the budget decremented by one, exactly when the error text matches a
\* recoverable substring and the budget is positive; otherwise it returns a
\* failure and makes no other call.
C24_RetryOnlyRecoverable ==
    [][op.name = "delete_task" /\ Returned("dt_delete") /\ HasError(ret) =>
            IF MatchesRecoverable(ret) /\ loc.retry_count > 0
            THEN /\ pc' = "dt_project" /\ tp'.phase = "send"
                 /\ loc'.retry_count = loc.retry_count - 1
            ELSE /\ pc' = "idle" /\ tp' = Idle
                 /\ HasError(out') /\ out'.d.error_code = "API_ERROR"
                 /\ opc' = opc]_vars

C24_Witness ==
    /\ op.name = "delete_task" /\ op.retry_count = 1 /\ pc = "idle"
    /\ opc.deletes = 2 /\ opc.calls = 6
    /\ HasError(out) /\ out.d.error_code = "API_ERROR" /\ ~MatchesRecoverable(out)

----------------------------------------------------------------------------
(* The successful refresh *)

\* The step is a refresh that returns True
RefreshSucceeds == tp.phase = "refresh" /\ cnt'.refreshOk = cnt.refreshOk + 1

\* C25: a refresh that succeeds sets the access token and the Authorization
\* header to the token issued, replaces the refresh token if and only if a
\* new one was issued, and saves the tokens to the file: the access token
\* issued, and the refresh token issued or else the one the file held.
C25_RefreshUpdatesAndSaves ==
    [][RefreshSucceeds =>
            /\ cl'.access_token = cnt'.issued
            /\ cl'.auth = cnt'.issued
            /\ cl'.refresh_token =
                    IF cnt'.issuedRefresh # NONE THEN cnt'.issuedRefresh ELSE cl.refresh_token
            /\ cl'.client_id = cl.client_id /\ cl'.client_secret = cl.client_secret
            /\ env'.access_token = IF cnt'.issued # NONE THEN cnt'.issued ELSE ""
            /\ env'.refresh_token =
                    IF cnt'.issuedRefresh # NONE THEN cnt'.issuedRefresh ELSE env.refresh_token
            /\ cnt'.tokenReq = cnt.tokenReq + 1]_vars

C25_Witness ==
    /\ tp.phase = "resend" /\ cnt.refreshOk = 1
    /\ cnt.issued = "a2" /\ cnt.issuedRefresh = NONE
    /\ cl.access_token = "a2" /\ cl.auth = "a2" /\ cl.refresh_token = "r1"
    /\ env.access_token = "a2" /\ env.refresh_token = "r1"

----------------------------------------------------------------------------
(* The failed refresh *)

\* The step is a refresh whose token request fails
TokenRequestFails == tp.phase = "refresh" /\ cnt'.tokenFailed = cnt.tokenFailed + 1

\* C26: when the request to the token endpoint fails, the refresh returns
\* False, and the client's access token, refresh token and Authorization
\* header and the saved tokens are as they were.
C26_FailedRefreshChangesNothing ==
    [][TokenRequestFails =>
            /\ cnt'.refreshFailed = cnt.refreshFailed + 1
            /\ cnt'.refreshOk = cnt.refreshOk
            /\ cl' = cl
            /\ env' = env
            /\ tp'.phase = "done"]_vars

C26_Witness ==
    /\ CallDone /\ cnt.tokenFailed = 1 /\ cnt.tokenReq = 2 /\ cnt.refreshOk = 1
    /\ cnt.refreshFailed = 1 /\ cl.auth = cnt.issued /\ cl.auth = "a2"

----------------------------------------------------------------------------
(* The classification of the responses *)

\* The step receives the response to a request
Answered == tp.phase \in {"send", "resend"} /\ cnt'.req = cnt.req + 1

\* C27: a 5xx is retried, after the wait and with retry_on_error false, only
\* if it is a 502, 503 or 504 received with retry_on_error true; any other
\* 5xx is returned at once as SERVER_ERROR with its status, is_transient true
\* exactly for 502, 503 and 504.
C27_ServerErrors ==
    [][Answered /\ cnt'.lastStatus >= 500 =>
            IF cnt'.lastStatus \in {502, 503, 504} /\ tp.retry
            THEN /\ tp'.phase = "send" /\ ~tp'.retry
                 /\ cnt'.sleep = cnt.sleep + 1
                 /\ ret' = ret
            ELSE /\ tp'.phase = "done"
                 /\ cnt'.sleep = cnt.sleep
                 /\ ret'.d.error_code = "SERVER_ERROR"
                 /\ ret'.d.http_status = cnt'.lastStatus
                 /\ ret'.d.is_transient = (cnt'.lastStatus \in {502, 503, 504})]_vars

C27_Witness ==
    /\ CallDone /\ ~tp.retry /\ cnt.sleep = 1 /\ cnt.lastStatus = 504
    /\ ret.d.error_code = "SERVER_ERROR" /\ ret.d.is_transient

\* C28: a request that raises ends the call: a timeout gives TIMEOUT and a
\* connection failure CONNECTION_ERROR, both marked transient; any other
\* exception gives REQUEST_FAILED or UNEXPECTED_ERROR, not marked transient;
\* the same holds of the request issued again after a refresh.
C28_Exceptions ==
    [][Answered /\ cnt'.lastKind # "http" =>
            /\ tp'.phase = "done"
            /\ cnt'.sleep = cnt.sleep
            /\ ret'.d.status = "failed"
            /\ ret'.d.error_code =
                    CASE cnt'.lastKind = "timeout" -> "TIMEOUT"
                      [] cnt'.lastKind = "connection" -> "CONNECTION_ERROR"
                      [] cnt'.lastKind = "request_exception" -> "REQUEST_FAILED"
                      [] OTHER -> "UNEXPECTED_ERROR"
            /\ IF cnt'.lastKind \in {"timeout", "connection"}
               THEN ret'.d.is_transient
               ELSE "is_transient" \notin DOMAIN ret'.d]_vars

C28_Witness ==
    /\ CallDone /\ cnt.lastWhy = "resend" /\ cnt.refreshOk = 1 /\ cnt.lastKind = "timeout"
    /\ ret.d.error_code = "TIMEOUT" /\ ret.d.is_transient

\* The table of the claim
ClientErrorTable ==
    [s \in {400, 403, 405, 409, 413, 415, 422} |->
        CASE s = 400 -> "BAD_REQUEST"
          [] s = 403 -> "FORBIDDEN"
          [] s = 405 -> "METHOD_NOT_ALLOWED"
          [] s = 409 -> "CONFLICT"
          [] s = 413 -> "PAYLOAD_TOO_LARGE"
          [] s = 415 -> "UNSUPPORTED_MEDIA_TYPE"
          [] OTHER -> "VALIDATION_ERROR"]

\* C29: a 4xx other than 401, 404 and 429 ends the call, without a wait and
\* without another request, as the failure whose code the table gives, or
\* CLIENT_ERROR_<status> for a status the table does not hold, with the
\* status and not marked transient.
C29_ClientErrors ==
    [][Answered /\ cnt'.lastStatus \in (400..499) \ {401, 404, 429} =>
            /\ tp'.phase = "done"
            /\ cnt'.sleep = cnt.sleep
            /\ ret'.d.status = "failed"
            /\ ret'.d.http_status = cnt'.lastStatus
            /\ ret'.d.error_code =
                    IF cnt'.lastStatus \in DOMAIN ClientErrorTable
                    THEN ClientErrorTable[cnt'.lastStatus]
                    ELSE "CLIENT_ERROR_<status>"
            /\ "is_transient" \notin DOMAIN ret'.d]_vars

C29_Witness ==
    /\ CallDone /\ cnt.req = 1 /\ cnt.lastStatus = 422
    /\ ret.d.error_code = "VALIDATION_ERROR" /\ ret.d.http_status = 422

\* C30: a 204 ends the call with a success; any other 2xx whose body does not
\* parse ends it with INVALID_RESPONSE_FORMAT, not marked transient, if the
\* body holds text, and with a success without content if the body is empty.
C30_SuccessBodies ==
    [][Answered /\ cnt'.lastStatus \in 200..299 =>
            /\ tp'.phase = "done"
            /\ CASE cnt'.lastStatus = 204 \/ cnt'.lastBody = "empty" ->
                        /\ ~HasError(ret')
                        /\ ret'.d.status = "success" /\ ret'.d.success = "True"
                        /\ ret'.d.http_status = cnt'.lastStatus
                        /\ DOMAIN ret'.d = {"success", "status", "message", "http_status"}
                 [] cnt'.lastBody = "text" ->
                        /\ HasError(ret')
                        /\ ret'.d.error_code = "INVALID_RESPONSE_FORMAT"
                        /\ ret'.d.http_status = cnt'.lastStatus
                        /\ "is_transient" \notin DOMAIN ret'.d
                 [] OTHER -> ~HasError(ret')]_vars

C30_Witness ==
    /\ CallDone /\ cnt.lastStatus = 201 /\ cnt.lastBody = "empty"
    /\ ~HasError(ret) /\ ret.d.http_status = 201

----------------------------------------------------------------------------
(* create_tasks: the fallback *)

\* The bulk call has returned and the first individual create is issued
FallbackEntered == Returned("bt_bulk") /\ pc' = "bt_item"

\* An individual create is issued
ItemIssued == pc' = "bt_item" /\ tp'.phase = "send" /\ tp.phase \in {"idle", "done"}

\* The individual create that is issued is the one for the next item of the
\* input, in the order of the input
IssuedInOrder ==
    LET i == opc'.posts - 1 IN
    /\ tp'.m = "POST" /\ tp'.ep = EpTaskCreate
    /\ i = Len(loc'.results) + 1
    /\ i \in 1..Len(op'.tasks)
    /\ tp'.data = Dict(ItemData(op'.tasks[i]))

\* One individual create and one result per item, the results in the order of
\* the input: a created task has its item's title, a failed result its item's
\* index (from 0) and input
ResultsInOrder ==
    /\ opc.posts = 1 + Len(op.tasks)
    /\ Len(out.d.tasks) = Len(op.tasks)
    /\ \A i \in 1..Len(op.tasks) :
            LET r == out.d.tasks[i] IN
            /\ HasError(r) => r.d.task_index = i - 1 /\ r.d.task_data = op.tasks[i]
            /\ ~HasError(r) /\ HasKey(r, "title") => r.d.title = ItemTitle(op.tasks[i])

\* C31 as stated: the individual creates are entered only if the bulk call
\* returned an error; then one individual create is issued per item in the
\* order of the input, with one result per item in that order, every failed
\* result tagged with its item's index and input.
C31_FallbackOnlyAfterError ==
    [][/\ FallbackEntered => HasError(ret)
       /\ ItemIssued => IssuedInOrder
       /\ FallbackReturned => ResultsInOrder]_vars

\* C31: the individual creates are entered only if the bulk call returned an
\* error, a status failed, or a body that is no JSON object; then one
\* individual create is issued per item in the order of the input, with one
\* result per item in that order, every failed result tagged with its item's
\* index and input.
C31_FallbackInOrder ==
    [][/\ FallbackEntered =>
            \/ HasError(ret)
            \/ ret.t # "dict"
            \/ (ret.t = "dict" /\ Get(ret.d, "status", NONE) = "failed")
       /\ ItemIssued => IssuedInOrder
       /\ FallbackReturned => ResultsInOrder]_vars

C31_Witness ==
    /\ FallbackReturned
    /\ op.tasks = <<"ok_b", "ok">>
    /\ ~HasError(out.d.tasks[1]) /\ Get(out.d.tasks[1].d, "title", NONE) = "B"
    /\ HasError(out.d.tasks[2]) /\ out.d.tasks[2].d.task_index = 1
    /\ out.d.tasks[2].d.task_data = "ok"

----------------------------------------------------------------------------
(* Results: success or failure *)

\* The error codes of the transport and those of the operations
Taxonomy ==
    ErrorCodes \cup {"PROJECT_NOT_FOUND", "TASK_NOT_FOUND", "TASK_FETCH_ERROR", "API_ERROR",
                     "INVALID_INPUT", "INVALID_TASK_FORMAT", "MISSING_REQUIRED_FIELD",
                     "BATCH_PROCESSING_ERROR"}

\* A result that is a failure has an error code of the taxonomy and no status
\* other than failed
SuccessOrFailure(r) ==
    HasError(r) =>
        /\ "error_code" \in DOMAIN r.d
        /\ r.d.error_code \in Taxonomy
        /\ Get(r.d, "status", "failed") = "failed"

\* C32: every result of the transport, of an individual create and of
\* create_tasks is a success or a failure; a failure has an error_code of the
\* taxonomy, no result is an error with a status other than failed, and no
\* error result lacks an error_code.
C32_SuccessOrFailure ==
    /\ CallDone => SuccessOrFailure(ret)
    /\ op.name = "create_tasks" /\ pc = "idle" =>
            /\ SuccessOrFailure(out)
            /\ FallbackReturned =>
                    \A i \in 1..Len(out.d.tasks) : SuccessOrFailure(out.d.tasks[i])

----------------------------------------------------------------------------
(* Transport: the most a call does *)

\* C33: a call of the transport issues at most 4 requests, makes at most 2
\* token refreshes and sleeps at most once; each invocation issues at most 2
\* requests and makes at most 1 refresh, which follows a request of its own,
\* and the fourth request is reached only through a refresh, the sleep of the
\* transient retry and a second refresh.
C33_CallBounds ==
    /\ cnt.req <= 4 /\ cnt.refresh <= 2 /\ cnt.sleep <= 1
    /\ cnt.req <= 2 * (1 + cnt.sleep)
    /\ cnt.refresh <= 1 + cnt.sleep
    /\ cnt.refresh <= cnt.req
    /\ (cnt.req = 4 => cnt.refresh = 2 /\ cnt.sleep = 1 /\ cnt.refreshOk = 2)
    /\ (cnt.req = 3 => cnt.refresh >= 1 /\ cnt.sleep = 1)

\* The worst case: 401, refresh, transient answer, sleep, 401, refresh and the
\* last response
C33_Witness ==
    /\ CallDone /\ cnt.req = 4 /\ cnt.refresh = 2 /\ cnt.sleep = 1
    /\ cnt.lastWhy = "resend" /\ cnt.lastStatus = 200

----------------------------------------------------------------------------
(* Transport: a 401 for the re-issued request *)

\* The re-issued request of an invocation is answered
ReissueAnswered == tp.phase = "resend" /\ cnt'.req = cnt.req + 1

\* C34: when the request re-issued after a refresh is answered with 401
\* again, the invocation makes no second refresh and issues nothing more: the
\* call ends with CLIENT_ERROR_401, status failed, not with AUTH_FAILED.
C34_SecondUnauthorized ==
    [][ReissueAnswered /\ cnt'.lastStatus = 401 =>
            /\ tp'.phase = "done"
            /\ cnt'.refresh = cnt.refresh /\ cnt'.tokenReq = cnt.tokenReq
            /\ cl' = cl
            /\ HasError(ret')
            /\ ret'.d.error_code = "CLIENT_ERROR_401"
            /\ ret'.d.status = "failed"
            /\ ret'.d.http_status = 401]_vars

C34_Witness ==
    /\ CallDone /\ cnt.req = 2 /\ cnt.refresh = 1 /\ cnt.refreshOk = 1
    /\ cnt.lastWhy = "resend" /\ cnt.lastStatus = 401
    /\ ret.d.error_code = "CLIENT_ERROR_401"

----------------------------------------------------------------------------
(* delete_task: the retry after a DELETE that took effect *)

\* delete_task calls itself after a DELETE that returned an error
DeleteRetried ==
    op.name = "delete_task" /\ Returned("dt_delete") /\ HasError(ret) /\ pc' # "idle"

\* delete_task calls the transport for a DELETE
DeleteIssued == op.name = "delete_task" /\ opc'.deletes = opc.deletes + 1

\* A retry of delete_task is at its pre-checks and the task is gone
RetryFindsTaskMissing ==
    /\ op.name = "delete_task" /\ pc \in {"dt_project", "dt_task"}
    /\ opc.deletes >= 1 /\ up.tasks = {} /\ opc.before # {}

\* C35: a retry of delete_task starts again at the project pre-check, and
\* every DELETE follows the two pre-checks of its own run; once a DELETE has
\* taken effect and returned a recoverable error, the retry finds the task
\* missing, issues no other DELETE and returns a failed outcome although the
\* task is deleted.
C35_RetryRunsPrechecks ==
    [][/\ DeleteRetried =>
            /\ Recoverable(ret)
            /\ pc' = "dt_project" /\ tp'.m = "GET" /\ tp'.ep = EpProject
            /\ loc'.retry_count = loc.retry_count - 1
            /\ opc'.deletes = opc.deletes
       /\ DeleteIssued =>
            /\ Returned("dt_task") /\ ~HasError(ret)
            /\ up.tasks # {}
            /\ opc.calls = 3 * opc.deletes + 2
       /\ RetryFindsTaskMissing =>
            /\ opc'.deletes = opc.deletes
            /\ pc' \in {"dt_project", "dt_task", "idle"}
            /\ pc' = "idle" =>
                    /\ HasError(out') /\ out'.d.status = "failed"
                    /\ out'.d.error_code \in {"PROJECT_NOT_FOUND", "TASK_FETCH_ERROR",
                                               "TASK_NOT_FOUND"}
                    /\ up'.tasks = {}]_vars

\* The DELETE was answered by a timeout after it took effect, and the retry
\* has stopped at the task pre-check
C35_Witness ==
    /\ op.name = "delete_task" /\ pc = "idle"
    /\ opc.before # {} /\ up.tasks = {}
    /\ opc.deletes = 1 /\ opc.calls = 5
    /\ HasError(out) /\ out.d.error_code = "TASK_FETCH_ERROR"

----------------------------------------------------------------------------
(* The refresh whose tokens cannot be saved *)

\* The step is a refresh that returns neither True nor False: it raises
RefreshRaises ==
    /\ tp.phase = "refresh" /\ cnt'.refresh = cnt.refresh + 1
    /\ cnt'.refreshOk = cnt.refreshOk /\ cnt'.refreshFailed = cnt.refreshFailed

\* C36: when the token endpoint has answered and saving the tokens raises,
\* the client's access token and Authorization header are the issued ones
\* already, the file is as it was, the request is not issued again, and the
\* call returns UNEXPECTED_ERROR, not AUTH_FAILED.
C36_SaveRaises ==
    [][RefreshRaises =>
            /\ cnt'.tokenReq = cnt.tokenReq + 1 /\ cnt'.tokenFailed = cnt.tokenFailed
            /\ cl'.access_token = cnt'.issued
            /\ cl'.auth = cnt'.issued
            /\ cl'.refresh_token =
                    IF cnt'.issuedRefresh # NONE THEN cnt'.issuedRefresh ELSE cl.refresh_token
            /\ env' = env
            /\ tp'.phase = "done"
            /\ cnt'.req = cnt.req
            /\ HasError(ret')
            /\ ret'.d.error_code = "UNEXPECTED_ERROR"
            /\ ret'.d.status = "failed"]_vars

C36_Witness ==
    /\ CallDone /\ cnt.req = 1 /\ cnt.refresh = 1 /\ cnt.tokenReq = 1
    /\ cnt.refreshOk = 0 /\ cnt.refreshFailed = 0
    /\ cnt.issued = "a2" /\ cl.access_token = "a2" /\ cl.auth = "a2"
    /\ env.access_token = "a1"
    /\ ret.d.error_code = "UNEXPECTED_ERROR"

----------------------------------------------------------------------------
(* The body of a success *)

\* C37: a 200 whose body is a JSON object ends the call with that object,
\* every key and value as received, and with status success added if and only
\* if the object had no status key; a body that is a list is returned as
\* received.
C37_BodyUnchanged ==
    [][Answered /\ cnt'.lastStatus = 200 /\ cnt'.body.t \in {"dict", "list"} =>
            /\ tp'.phase = "done"
            /\ IF cnt'.body.t = "list"
               THEN ret' = cnt'.body
               ELSE /\ ret'.t = "dict"
                    /\ DOMAIN ret'.d = DOMAIN cnt'.body.d \cup {"status"}
                    /\ \A k \in DOMAIN cnt'.body.d : ret'.d[k] = cnt'.body.d[k]
                    /\ "status" \notin DOMAIN cnt'.body.d => ret'.d.status = "success"]_vars

\* A task without a status field has been returned with status success
C37_Witness ==
    /\ op.name = "get_task" /\ CallDone /\ cnt.lastStatus = 200
    /\ cnt.body = Dict(TaskNoStatus)
    /\ ret.d.status = "success" /\ ret.d.title = "A"

----------------------------------------------------------------------------
(* create_tasks: the counts of the fallback *)

\* The entries of the fallback's result that are no errors
Successes == {i \in 1..Len(out.d.tasks) : ~HasError(out.d.tasks[i])}

\* C38: the result of the fallback has total_count entries, one per item,
\* successful_count is the number of entries without an error, between 0 and
\* total_count, whichever individual creates succeeded, failed or raised.
C38_FallbackCounts ==
    FallbackReturned =>
        /\ out.d.total_count = Len(op.tasks)
        /\ Len(out.d.tasks) = out.d.total_count
        /\ out.d.successful_count = Cardinality(Successes)
        /\ out.d.successful_count \in 0..out.d.total_count

\* The first individual create raised, the second succeeded
C38_Witness ==
    /\ FallbackReturned /\ Len(op.tasks) = 2
    /\ out.d.tasks[1] = ItemRaised(0, op.tasks[1])
    /\ ~HasError(out.d.tasks[2])
    /\ out.d.successful_count = 1 /\ out.d.total_count = 2

----------------------------------------------------------------------------
(* update_task of the server: nothing to change *)

\* The supplied fields
ToolSupplied == {k \in DOMAIN op.args : op.args[k] # NONE}

\* The tool has fetched the task and no supplied field differs from it
NothingDiffers ==
    /\ op.name = "update_task_tool" /\ Returned("uu_task") /\ ~HasError(ret)
    /\ \A k \in ToolSupplied : k \in DOMAIN ret.d /\ ret.d[k] = op.args[k]

\* C39: when no supplied field differs from the task the tool has fetched, or
\* no field is supplied, the tool returns a no-changes outcome and has issued
\* no write; a write is issued only after a fetch from which a supplied field
\* differs.
C39_NoWriteWithoutChange ==
    [][/\ NothingDiffers =>
            /\ pc' = "idle"
            /\ out'.mark = "info"
            /\ opc'.posts = 0
            /\ up'.tasks = opc'.before
       /\ op.name = "update_task_tool" /\ opc'.posts > opc.posts =>
            /\ opc.posts = 0
            /\ \E k \in ToolSupplied : Get(loc.existing_task, k, NONE) # op.args[k]]_vars

\* The title supplied is the title the task has
C39_Witness ==
    /\ op.name = "update_task_tool" /\ pc = "idle"
    /\ op.args.title = "A" /\ op.args.priority = NONE /\ op.args.content = NONE
    /\ out.mark = "info" /\ opc.calls = 2 /\ opc.posts = 0

----------------------------------------------------------------------------
(* delete_task of the server: the branches that are never taken *)

\* The tool has returned after the client's delete_task did
ToolAfterDelete ==
    op.name = "delete_task_tool" /\ pc = "idle" /\ out.result # Dict(EmptyDict)

\* C40: the client's delete_task returns a result whose status is success,
\* warning or failed, and every failed result carries an error; so the tool
\* returns at its error test or in its success or warning branch, and neither
\* its failed branch nor its last branch, the listing of the project, is
\* taken.
C40_DeadBranches ==
    /\ pc # "dd_listing"
    /\ ToolAfterDelete =>
            /\ Get(out.result.d, "status", NONE) \in {"success", "warning", "failed"}
            /\ (out.result.d.status = "failed" <=> HasError(out.result))
            /\ out.mark \in {"error", "success", "warning"}
            /\ (out.mark = "error" <=> HasError(out.result))

\* The DELETE was accepted and the task is still there: the client reports a
\* success with a sync delay, and the tool its success branch
C40_Witness ==
    /\ ToolAfterDelete
    /\ out.result.d.status = "success" /\ HasKey(out.result, "has_sync_delay")
    /\ out.mark = "success" /\ opc.deletes = 1 /\ opc.calls = 6

====
